---- MODULE Spec2Model ----
(***************************************************************************)
(* Line Rider userscript mods: the preview/commit reconciler shared by the *)
(* logic controllers (TemplateMod, the grid and synchronized RiderMod, the *)
(* bosh placer RiderMod, BoshAdderMod, SkewMod) running against the host   *)
(* store, and the Gravity API keyframe table with its evaluator and the    *)
(* contact-point selection helpers.                                        *)
(*                                                                         *)
(* A handler is one action: every store.dispatch it makes runs the host    *)
(* reducer and then, synchronously, the controller's subscribeImmediate    *)
(* listener (onUpdate with the default argument), exactly as nested calls. *)
(***************************************************************************)
EXTENDS Integers, Sequences, FiniteSets, TLC

(* ------------------------------- bounds -------------------------------- *)
\* numeric UI parameters are drawn from 0..MaxCount
MaxCount == 1
\* riders in the host's rider list
MaxRiders == 2
\* preview edits simultaneously on the host's scratch layer
MaxScratch == 2
\* nesting of dispatch -> subscriber -> dispatch
MaxDepth == 4
\* distinct non-empty selections of the host's select tool
MaxSel == 1
\* keyframe items in one setGravityKeyframes call
MaxItems == 2
\* frames the engine has computed (engine._computed._frames.length)
MaxFrame == 4
\* riders in the scene are at indices 0..MaxRiderIndex
MaxRiderIndex == 1
\* reads of $ENGINE_PARAMS.gravity the memoizing getter has counted
MaxReads == 20
\* the count argument of repeatRider is drawn from 0..MaxRepeat
MaxRepeat == 3
\* rider_count_x and rider_count_y of the grid panel are drawn from 0..MaxGrid
MaxGrid == 2
\* requestAnimationFrame callbacks that may wait at once
MaxPending == 2
\* largest player index the user seeks to
MaxPlayerIndex == 2

(* ------------------------------ variables ------------------------------ *)
VARIABLES
  mod,             \* which logic controller is attached to the store
  state,           \* this.state: the configuration object (ref = object identity)
  changed,         \* this.changed
  track,           \* this.track: cached committedEngine reference
  selectedPoints,  \* SkewMod this.selectedPoints
  riders,          \* bosh placer this.riders (length of the list)
  lines,           \* bosh placer this.lines (buffer non-empty)
  committedEngine, \* host: state.simulator.committedEngine
  uncommitted,     \* host: edits on the scratch layer, not yet committed
  selectTool,      \* host: select tool (active, selected points)
  ev,              \* the last handler: what it was given, dispatched, returned
  api,             \* which Gravity API script is loaded
  items,           \* the user's script: the argument of setGravityKeyframes
  allGravityKeyframes, \* window.allGravityKeyframes
  hooked,          \* the gravity getter is installed on $ENGINE_PARAMS
  frameIndex,      \* host: engine._computed._frames.length
  gev,             \* the last read of the gravity getter
  allRiders,       \* host: the scene's rider objects, Selectors.getRiders()
  sel,             \* the last call of a selection helper
  cache,           \* window.__gravityFrameCache (frameIndex, gravityResults)
  counter,         \* window.__gravityIterationCounter
  memo,            \* the last read of the memoizing getter, and the points
                   \* scanned since the frame index it observed last changed
  lib,             \* which rider library script defines makeRider/repeatRider
  heap,            \* the rider objects, their position/velocity objects and
                   \* group Sets: heap[r] is the object with reference r
  made,            \* the last call of a rider helper: arguments and result
  gridState,       \* grid RiderMod this.state with its numeric parameters
  committedRiders, \* host: getSimulatorCommittedRiders(store.getState())
  preview,         \* host: the rider list of the grid's last setRiders preview
  registerCustomSetting, \* host: window.registerCustomSetting exists
  onCustomToolsApiReady, \* window.onCustomToolsApiReady: a closure or undefined
  loaded,          \* the mod scripts that have run their init block, in order
  mains,           \* the main() calls made so far, in order
  readPos,         \* host: how many reads of the gravity property the engine
                   \* has made for the frame it is computing
  playerIndex,     \* host: store.getState().player.index
  pending,         \* host: the requestAnimationFrame callbacks not yet run,
                   \* each the player index it will dispatch
  followerFrames   \* host: camera.playbackFollower._frames.length

modVars == <<mod, state, changed, track, selectedPoints, riders, lines,
             committedEngine, uncommitted, selectTool, ev>>

Mods == {"Template", "Grid", "Sync", "Placer", "Adder", "Skew"}

gravVars == <<api, items, allGravityKeyframes, hooked, frameIndex, gev>>

selVars == <<allRiders, sel>>

memoVars == <<cache, counter, memo>>

riderVars == <<lib, heap, made>>

gridVars == <<gridState, committedRiders, preview>>

loadVars == <<registerCustomSetting, onCustomToolsApiReady, loaded, mains>>

hostVars == <<readPos, playerIndex, pending, followerFrames>>

Max(a, b) == IF a >= b THEN a ELSE b
Min(a, b) == IF a <= b THEN a ELSE b

(* ----------------------------- host actions ---------------------------- *)
commitTrackChanges == [type |-> "COMMIT_TRACK_CHANGES"]
revertTrackChanges == [type |-> "REVERT_TRACK_CHANGES"]
addLines(n) == [type |-> "UPDATE_LINES", n |-> n]
setRiders(n) == [type |-> "SET_RIDERS", n |-> n]
setEditScene == [type |-> "SET_RENDERER_SCENE"]
setTool == [type |-> "SET_TOOL"]

IsPreview(a) == a.type \in {"UPDATE_LINES", "SET_RIDERS"}

\* object identities of committedEngine: the store's current one and the one
\* the controller caches are the only live ones, so three suffice
Refs == 0 .. 2
FreshRef(w) == CHOOSE r \in Refs : r # w.committedEngine.ref /\ r # w.track

\* the world a handler runs in: controller fields, host fields, and the
\* record of what the handler did (log: its dispatches; peak: the most edits
\* the scratch layer held; permanent: entries added to the host's undo
\* history; baked: preview edits those entries contain)
World ==
  [mod |-> mod, state |-> state, changed |-> changed, track |-> track,
   selectedPoints |-> selectedPoints, riders |-> riders, lines |-> lines,
   committedEngine |-> committedEngine, uncommitted |-> uncommitted,
   selectTool |-> selectTool,
   log |-> <<>>, depth |-> 0, peak |-> Len(uncommitted),
   permanent |-> 0, baked |-> 0, ret |-> "none", overflow |-> FALSE]

RECURSIVE LastRiders(_, _)
\* the rider list the engine shows: the last SET_RIDERS on the scratch layer
LastRiders(s, dflt) ==
  IF s = <<>> THEN dflt
  ELSE IF s[Len(s)].type = "SET_RIDERS" THEN s[Len(s)].n
       ELSE LastRiders(SubSeq(s, 1, Len(s) - 1), dflt)

AddsLines(s) == \E i \in 1 .. Len(s) : s[i].type = "UPDATE_LINES" /\ s[i].n > 0

\* state.simulator.engine.engine.state.riders / .lines.buffer
EngineRiders(w) == LastRiders(w.uncommitted, w.committedEngine.riders)
EngineHasLines(w) == w.committedEngine.hasLines \/ AddsLines(w.uncommitted)

\* the host reducer
Reduce(w, a) ==
  CASE IsPreview(a) ->
         [w EXCEPT !.uncommitted = Append(@, a)]
    [] a.type = "REVERT_TRACK_CHANGES" ->
         [w EXCEPT !.uncommitted = <<>>]
    [] a.type = "COMMIT_TRACK_CHANGES" ->
         IF w.uncommitted = <<>> THEN w
         ELSE [w EXCEPT !.committedEngine =
                          [ref |-> FreshRef(w),
                           riders |-> EngineRiders(w),
                           hasLines |-> EngineHasLines(w)],
                        !.uncommitted = <<>>,
                        !.permanent = @ + 1,
                        !.baked = @ + Len(w.uncommitted)]
    [] a.type = "SET_TOOL" ->
         [w EXCEPT !.selectTool.active = TRUE]
    [] OTHER -> w


(* ------------------- handlers as sequences of steps --------------------- *)
\* A call in progress is a frame: the method (fn), where it is (pc), and for
\* onUpdate its argument nextState. A step of a method yields the world after
\* it, the frame to go on with, and the action it dispatches (if any) or done.
NoAct == [type |-> "none"]

Frame(fn, nextState) == [fn |-> fn, pc |-> "enter", next |-> nextState]

\* store.subscribeImmediate(() => { this.onUpdate() }): the listener every
\* controller registers in its constructor; nextState defaults to this.state
Subscriber(w) == Frame("onUpdate", w.state)

Go(w, f, pc) == [w |-> w, f |-> [f EXCEPT !.pc = pc], act |-> NoAct, done |-> FALSE]
Do(w, f, pc, a) == [w |-> w, f |-> [f EXCEPT !.pc = pc], act |-> a, done |-> FALSE]
Done(w, f) == [w |-> w, f |-> f, act |-> NoAct, done |-> TRUE]
Return(w, f, v) == [w |-> [w EXCEPT !.ret = v], f |-> f, act |-> NoAct, done |-> TRUE]

\* the two checks every onUpdate starts with: adopt a new configuration
\* object, and (only while active) adopt a new committedEngine object
AdoptState(w, nextState) ==
  IF w.state.ref # nextState.ref THEN [w EXCEPT !.state = nextState] ELSE w

\* variant: the track check does not look at state.active
TrackChanged_WhileInactive(w) == w.track # w.committedEngine.ref

TrackChanged(w) == w.state.active /\ w.track # w.committedEngine.ref

AdoptTrack(w) ==
  IF TrackChanged(w) THEN [w EXCEPT !.track = w.committedEngine.ref] ELSE w

(* ------------------------------ TemplateMod ----------------------------- *)
\* genLines yields the four sides of the rectangle, whatever its size
genLines(st) == 4

\* variant: the recompute does not look at state.active
TemplateOnUpdate_NoActiveCheck(w, f) ==
  CASE f.pc = "enter" ->
         LET w1 == AdoptState(w, f.next)
             shouldUpdate == w.state.ref # f.next.ref \/ TrackChanged(w1)
         IN IF shouldUpdate THEN Go(AdoptTrack(w1), f, "revert") ELSE Done(w1, f)
    [] f.pc = "revert" ->
         IF w.changed THEN Do(w, f, "reverted", revertTrackChanges)
         ELSE Go(w, f, "recompute")
    [] f.pc = "reverted" -> Go([w EXCEPT !.changed = FALSE], f, "recompute")
    [] f.pc = "recompute" ->
         IF genLines(w.state) > 0
           THEN Do(w, f, "previewed", addLines(genLines(w.state)))
           ELSE Done(w, f)
    [] f.pc = "previewed" -> Done([w EXCEPT !.changed = TRUE], f)

TemplateOnUpdate(w, f) ==
  CASE f.pc = "enter" ->
         LET w1 == AdoptState(w, f.next)
             shouldUpdate == w.state.ref # f.next.ref \/ TrackChanged(w1)
         IN IF shouldUpdate THEN Go(AdoptTrack(w1), f, "revert") ELSE Done(w1, f)
    [] f.pc = "revert" ->
         IF w.changed THEN Do(w, f, "reverted", revertTrackChanges)
         ELSE Go(w, f, "recompute")
    [] f.pc = "reverted" -> Go([w EXCEPT !.changed = FALSE], f, "recompute")
    [] f.pc = "recompute" ->
         IF w.state.active /\ genLines(w.state) > 0
           THEN Do(w, f, "previewed", addLines(genLines(w.state)))
           ELSE Done(w, f)
    [] f.pc = "previewed" -> Done([w EXCEPT !.changed = TRUE], f)

\* variant: commit without the revert that clears the scratch layer
TemplateCommit_NoRevert(w, f) ==
  CASE f.pc = "enter" ->
         IF w.changed THEN Do(w, f, "reverted", commitTrackChanges)
         ELSE Return(w, f, "undefined")
    [] f.pc = "reverted" -> Return([w EXCEPT !.changed = FALSE], f, "true")

TemplateCommit(w, f) ==
  CASE f.pc = "enter" ->
         IF w.changed THEN Do(w, f, "committed", commitTrackChanges)
         ELSE Return(w, f, "undefined")
    [] f.pc = "committed" -> Do(w, f, "reverted", revertTrackChanges)
    [] f.pc = "reverted" -> Return([w EXCEPT !.changed = FALSE], f, "true")

(* --------------------- RiderMod (grid of riders) ------------------------ *)
\* variant: the track check comes before the new configuration is stored, so
\* it still sees the old state.active
GridOnUpdate_TrackCheckFirst(w, f) ==
  CASE f.pc = "enter" ->
         LET w1 == AdoptTrack(w)
             shouldUpdate == w.state.ref # f.next.ref \/ TrackChanged(w)
         IN IF shouldUpdate THEN Go(AdoptState(w1, f.next), f, "revert")
            ELSE Done(w1, f)
    [] f.pc = "revert" ->
         IF w.changed THEN Do(w, f, "reverted", revertTrackChanges)
         ELSE Go(w, f, "active")
    [] f.pc = "reverted" -> Go([w EXCEPT !.changed = FALSE], f, "active")
    [] f.pc = "active" ->
         IF ~w.state.active THEN Done(w, f)
         ELSE IF w.changed THEN Do(w, f, "reverted2", revertTrackChanges)
         ELSE Go(w, f, "recompute")
    [] f.pc = "reverted2" -> Go([w EXCEPT !.changed = FALSE], f, "recompute")
    [] f.pc = "recompute" ->
         LET committed_riders == w.committedEngine.riders
             new_riders == w.state.rider_count_y * w.state.rider_count_x
         IN Do(w, f, "previewed", setRiders(committed_riders + new_riders))
    [] f.pc = "previewed" -> Done([w EXCEPT !.changed = TRUE], f)

GridOnUpdate(w, f) ==
  CASE f.pc = "enter" ->
         LET w1 == AdoptState(w, f.next)
             shouldUpdate == w.state.ref # f.next.ref \/ TrackChanged(w1)
         IN IF shouldUpdate THEN Go(AdoptTrack(w1), f, "revert") ELSE Done(w1, f)
    [] f.pc = "revert" ->
         IF w.changed THEN Do(w, f, "reverted", revertTrackChanges)
         ELSE Go(w, f, "active")
    [] f.pc = "reverted" -> Go([w EXCEPT !.changed = FALSE], f, "active")
    [] f.pc = "active" ->
         IF ~w.state.active THEN Done(w, f)
         ELSE IF w.changed THEN Do(w, f, "reverted2", revertTrackChanges)
         ELSE Go(w, f, "recompute")
    [] f.pc = "reverted2" -> Go([w EXCEPT !.changed = FALSE], f, "recompute")
    [] f.pc = "recompute" ->
         LET committed_riders == w.committedEngine.riders
             new_riders == w.state.rider_count_y * w.state.rider_count_x
         IN Do(w, f, "previewed", setRiders(committed_riders + new_riders))
    [] f.pc = "previewed" -> Done([w EXCEPT !.changed = TRUE], f)

\* getSimulatorCommittedRiders(...).pop(): the committed list loses its last
\* rider in place and the popped rider (not a list) is the payload
GridRemove(w, f) ==
  CASE f.pc = "enter" ->
         IF w.changed THEN Done(w, f)
         ELSE LET n == w.committedEngine.riders
              IN Do([w EXCEPT !.committedEngine.riders = Max(n - 1, 0)], f, "removed",
                    setRiders(Min(n, 1)))
    [] f.pc = "removed" -> Done([w EXCEPT !.changed = TRUE], f)

GridCommit(w, f) ==
  CASE f.pc = "enter" ->
         IF ~w.changed THEN Return(w, f, "false")
         ELSE Do(w, f, "committed", commitTrackChanges)
    [] f.pc = "committed" -> Do(w, f, "reverted", revertTrackChanges)
    [] f.pc = "reverted" -> Return([w EXCEPT !.changed = FALSE], f, "true")

(* -------------------- RiderMod (synchronized riders) -------------------- *)
\* variant: the revert is dispatched whether or not a preview is outstanding
SyncOnUpdate_AlwaysRevert(w, f) ==
  CASE f.pc = "enter" ->
         LET w1 == AdoptState(w, f.next)
             shouldUpdate == w.state.ref # f.next.ref \/ TrackChanged(w1)
         IN IF shouldUpdate THEN Go(AdoptTrack(w1), f, "revert") ELSE Done(w1, f)
    [] f.pc = "revert" -> Do(w, f, "reverted", revertTrackChanges)
    [] f.pc = "reverted" -> Go([w EXCEPT !.changed = FALSE], f, "active")
    [] f.pc = "active" ->
         IF ~w.state.active THEN Done(w, f) ELSE Go(w, f, "recompute")
    [] f.pc = "recompute" ->
         LET committed_riders == w.committedEngine.riders
             new_riders == w.state.rider_count
         IN Do(w, f, "previewed", setRiders(committed_riders + new_riders))
    [] f.pc = "previewed" -> Done([w EXCEPT !.changed = TRUE], f)

SyncOnUpdate(w, f) ==
  CASE f.pc = "enter" ->
         LET w1 == AdoptState(w, f.next)
             shouldUpdate == w.state.ref # f.next.ref \/ TrackChanged(w1)
         IN IF shouldUpdate THEN Go(AdoptTrack(w1), f, "revert") ELSE Done(w1, f)
    [] f.pc = "revert" ->
         IF w.changed THEN Do(w, f, "reverted", revertTrackChanges)
         ELSE Go(w, f, "active")
    [] f.pc = "reverted" -> Go([w EXCEPT !.changed = FALSE], f, "active")
    [] f.pc = "active" ->
         IF ~w.state.active THEN Done(w, f)
         ELSE IF w.changed THEN Do(w, f, "reverted2", revertTrackChanges)
         ELSE Go(w, f, "recompute")
    [] f.pc = "reverted2" -> Go([w EXCEPT !.changed = FALSE], f, "recompute")
    [] f.pc = "recompute" ->
         LET committed_riders == w.committedEngine.riders
             new_riders == w.state.rider_count
         IN Do(w, f, "previewed", setRiders(committed_riders + new_riders))
    [] f.pc = "previewed" -> Done([w EXCEPT !.changed = TRUE], f)

SyncRemove(w, f) ==
  CASE f.pc = "enter" ->
         IF w.changed THEN Done(w, f)
         ELSE LET n == w.committedEngine.riders
              IN Do([w EXCEPT !.committedEngine.riders = Max(n - 1, 0)], f, "removed",
                    setRiders(Min(n, 1)))
    [] f.pc = "removed" -> Done([w EXCEPT !.changed = TRUE], f)

SyncCommit(w, f) ==
  CASE f.pc = "enter" ->
         IF ~w.changed THEN Return(w, f, "false")
         ELSE Do(w, f, "committed", commitTrackChanges)
    [] f.pc = "committed" -> Do(w, f, "reverted", revertTrackChanges)
    [] f.pc = "reverted" -> Return([w EXCEPT !.changed = FALSE], f, "true")

(* ----------------------- RiderMod (bosh placer) ------------------------- *)
\* no track check: while active it re-reads the engine's riders and lines
PlacerOnUpdate(w, f) ==
  CASE f.pc = "enter" ->
         LET w1 == AdoptState(w, f.next)
             shouldUpdate == w.state.ref # f.next.ref
             w2 == IF w1.state.active
                     THEN [w1 EXCEPT !.riders = EngineRiders(w1),
                                     !.lines = EngineHasLines(w1)]
                     ELSE w1
         IN IF ~shouldUpdate THEN Done(w2, f)
            ELSE IF w2.changed THEN Do(w2, f, "reverted", revertTrackChanges)
            ELSE Done(w2, f)
    [] f.pc = "reverted" -> Done([w EXCEPT !.changed = FALSE], f)

\* one more rider at the end of the last line; this.riders is emptied after
PlacerAdd(w, f) ==
  CASE f.pc = "enter" ->
         IF w.lines THEN Do(w, f, "added", setRiders(w.riders + 1))
         ELSE Done(w, f)
    [] f.pc = "added" -> Done([w EXCEPT !.riders = 0, !.changed = TRUE], f)

PlacerRemove(w, f) ==
  CASE f.pc = "enter" ->
         IF w.changed THEN Done(w, f)
         ELSE Do(w, f, "removed", setRiders(Max(w.riders - 1, 0)))
    [] f.pc = "removed" -> Done([w EXCEPT !.riders = 0, !.changed = TRUE], f)

PlacerCommit(w, f) ==
  CASE f.pc = "enter" ->
         IF ~w.changed THEN Return(w, f, "false")
         ELSE Do(w, f, "committed", commitTrackChanges)
    [] f.pc = "committed" -> Do(w, f, "reverted", revertTrackChanges)
    [] f.pc = "reverted" -> Return([w EXCEPT !.changed = FALSE], f, "true")

(* ----------------------------- BoshAdderMod ----------------------------- *)
\* the loop pushes a rider while committed + pushed < maxRiders
AdderNewRiders(st, committed_riders) ==
  LET wanted == IF st.multipleRiders THEN st.multi_rider_x * st.multi_rider_y ELSE 1
  IN Min(wanted, Max(st.maxRiders - committed_riders, 0))

\* the x coordinate of the end of the last committed line, as far as it
\* matters: not the 0 the panel starts x_init with
LastLineX == 1

\* the fields of this.state (the configuration object) onUpdate assigns:
\* x_init from the last line of this.track, riderCount from the rider list
AdderWriteState(w, count) ==
  LET x == IF w.committedEngine.hasLines /\ w.state.useLastLine THEN LastLineX
           ELSE IF ~w.state.useLastLine THEN 0
           ELSE w.state.x_init
  IN [w EXCEPT !.state.x_init = x, !.state.riderCount = count]

\* onUpdate: the track check itself dispatches a revert; this.changed is set
\* whether or not any rider was previewed.
\* variant: the track check dispatches its revert before it stores the new
\* committedEngine in this.track
AdderOnUpdate_RevertBeforeAdopt(w, f) ==
  CASE f.pc = "enter" ->
         LET w1 == AdoptState(w, f.next)
             stateChanged == w.state.ref # f.next.ref
         IN IF TrackChanged(w1)
              THEN Do(w1, f, "adopt", revertTrackChanges)
              ELSE IF stateChanged THEN Go(w1, f, "revert") ELSE Done(w1, f)
    [] f.pc = "adopt" -> Go(AdoptTrack(w), f, "revert")
    [] f.pc = "revert" ->
         IF w.changed THEN Do(w, f, "reverted", revertTrackChanges)
         ELSE Go(w, f, "recompute")
    [] f.pc = "reverted" -> Go([w EXCEPT !.changed = FALSE], f, "recompute")
    [] f.pc = "recompute" ->
         LET committed_riders == w.committedEngine.riders
             newRiders == AdderNewRiders(w.state, committed_riders)
             w1 == AdderWriteState(w, committed_riders + newRiders)
         IN IF ~w.state.active THEN Done(w, f)
            ELSE IF newRiders > 0
                   THEN Do(w1, f, "previewed", setRiders(committed_riders + newRiders))
                   ELSE Go(w1, f, "previewed")
    [] f.pc = "previewed" -> Done([w EXCEPT !.changed = TRUE], f)

AdderOnUpdate(w, f) ==
  CASE f.pc = "enter" ->
         LET w1 == AdoptState(w, f.next)
             stateChanged == w.state.ref # f.next.ref
         IN IF TrackChanged(w1)
              THEN Do(AdoptTrack(w1), f, "revert", revertTrackChanges)
              ELSE IF stateChanged THEN Go(w1, f, "revert") ELSE Done(w1, f)
    [] f.pc = "revert" ->
         IF w.changed THEN Do(w, f, "reverted", revertTrackChanges)
         ELSE Go(w, f, "recompute")
    [] f.pc = "reverted" -> Go([w EXCEPT !.changed = FALSE], f, "recompute")
    [] f.pc = "recompute" ->
         LET committed_riders == w.committedEngine.riders
             newRiders == AdderNewRiders(w.state, committed_riders)
             w1 == AdderWriteState(w, committed_riders + newRiders)
         IN IF ~w.state.active THEN Done(w, f)
            ELSE IF newRiders > 0
                   THEN Do(w1, f, "previewed", setRiders(committed_riders + newRiders))
                   ELSE Go(w1, f, "previewed")
    [] f.pc = "previewed" -> Done([w EXCEPT !.changed = TRUE], f)

AdderCommit(w, f) ==
  CASE f.pc = "enter" ->
         IF w.changed THEN Do(w, f, "committed", commitTrackChanges)
         ELSE Return(w, f, "undefined")
    [] f.pc = "committed" -> Do(w, f, "reverted", revertTrackChanges)
    [] f.pc = "reverted" -> Return([w EXCEPT !.changed = FALSE], f, "true")

(* -------------------------------- SkewMod ------------------------------- *)
\* selectToolState.selectedPoints, or EMPTY_SET unless it is a multi selection;
\* 0 stands for the empty set
HostSelectedPoints(w) == w.selectTool.points

SkewOnUpdate(w, f) ==
  CASE f.pc = "enter" ->
         LET w1 == AdoptState(w, f.next)
             w2 == AdoptTrack(w1)
             selChanged == w1.state.active /\ w1.selectedPoints # HostSelectedPoints(w1)
             w3 == IF selChanged
                     THEN [w2 EXCEPT !.selectedPoints = HostSelectedPoints(w2)]
                     ELSE w2
             shouldUpdate == w.state.ref # f.next.ref \/ TrackChanged(w1) \/ selChanged
         IN IF shouldUpdate THEN Go(w3, f, "revert") ELSE Done(w3, f)
    [] f.pc = "revert" ->
         IF w.changed THEN Do(w, f, "revertScene", revertTrackChanges)
         ELSE Go(w, f, "recompute")
    [] f.pc = "revertScene" -> Do(w, f, "reverted", setEditScene)
    [] f.pc = "reverted" -> Go([w EXCEPT !.changed = FALSE], f, "recompute")
    [] f.pc = "recompute" ->
         IF w.state.active /\ w.selectedPoints # 0
              /\ (w.state.skewX # 0 \/ w.state.skewY # 0)
           THEN Do(w, f, "previewScene", addLines(1))
           ELSE Done(w, f)
    [] f.pc = "previewScene" -> Do(w, f, "previewed", setEditScene)
    [] f.pc = "previewed" -> Done([w EXCEPT !.changed = TRUE], f)

SkewCommit(w, f) ==
  CASE f.pc = "enter" ->
         IF w.changed THEN Do(w, f, "committed", commitTrackChanges)
         ELSE Return(w, f, "undefined")
    [] f.pc = "committed" -> Do(w, f, "reverted", revertTrackChanges)
    [] f.pc = "reverted" -> Do(w, f, "scene", setEditScene)
    [] f.pc = "scene" -> Return([w EXCEPT !.changed = FALSE], f, "true")

(* ------------------------ the attached controller ----------------------- *)
OnUpdate(w, f) ==
  CASE w.mod = "Template" -> TemplateOnUpdate(w, f)
    [] w.mod = "Grid" -> GridOnUpdate(w, f)
    [] w.mod = "Sync" -> SyncOnUpdate(w, f)
    [] w.mod = "Placer" -> PlacerOnUpdate(w, f)
    [] w.mod = "Adder" -> AdderOnUpdate(w, f)
    [] w.mod = "Skew" -> SkewOnUpdate(w, f)

Commit(w, f) ==
  CASE w.mod = "Template" -> TemplateCommit(w, f)
    [] w.mod = "Grid" -> GridCommit(w, f)
    [] w.mod = "Sync" -> SyncCommit(w, f)
    [] w.mod = "Placer" -> PlacerCommit(w, f)
    [] w.mod = "Adder" -> AdderCommit(w, f)
    [] w.mod = "Skew" -> SkewCommit(w, f)

Remove(w, f) ==
  CASE w.mod = "Grid" -> GridRemove(w, f)
    [] w.mod = "Sync" -> SyncRemove(w, f)
    [] w.mod = "Placer" -> PlacerRemove(w, f)

\* a dispatch made from the component itself (setTool), not from the controller
DispatchOnce(w, f) ==
  CASE f.pc = "enter" -> Do(w, f, "dispatched", f.next)
    [] f.pc = "dispatched" -> Done(w, f)

Step(w, f) ==
  CASE f.fn = "onUpdate" -> OnUpdate(w, f)
    [] f.fn = "commit" -> Commit(w, f)
    [] f.fn = "remove" -> Remove(w, f)
    [] f.fn = "add" -> PlacerAdd(w, f)
    [] f.fn = "dispatch" -> DispatchOnce(w, f)

(* ------------------- dispatch and the store subscription ---------------- *)
\* store.dispatch: reduce, then run the listener to its end before the
\* dispatching method goes on. depth: how many listener calls enclose the
\* dispatching method; outer: the method whose dispatch the innermost of them
\* answers ("none" for a dispatch of the handler's own call)
Dispatched(w, a, rest) ==
  LET entry == [type |-> a.type, depth |-> Len(rest),
                outer |-> IF rest = <<>> THEN "none" ELSE Head(rest).fn]
      r == Reduce([w EXCEPT !.log = Append(@, entry)], a)
  IN [r EXCEPT !.peak = Max(@, Len(r.uncommitted))]

RECURSIVE Exec(_, _)
\* runs the call stack (innermost call first) until it is empty
Exec(w, stack) ==
  IF stack = <<>> THEN w
  ELSE LET r == Step(w, Head(stack))
           rest == Tail(stack)
       IN IF r.done THEN Exec(r.w, rest)
          ELSE IF r.act = NoAct THEN Exec(r.w, <<r.f>> \o rest)
          ELSE LET w1 == Dispatched(r.w, r.act, rest)
               IN IF Len(stack) > MaxDepth
                    THEN Exec([w1 EXCEPT !.overflow = TRUE], <<r.f>> \o rest)
                    ELSE Exec(w1, <<Subscriber(w1), r.f>> \o rest)

Call(w, fn, arg) == Exec(w, <<Frame(fn, arg)>>)

(* ---------------------- the UI panel's configuration -------------------- *)
\* this.state of each React component as its constructor sets it
InitState(m) ==
  CASE m = "Template" -> [ref |-> 0, active |-> FALSE, width |-> 0]
    [] m = "Grid" -> [ref |-> 0, active |-> FALSE, rider_count_x |-> 1, rider_count_y |-> 1]
    [] m = "Sync" -> [ref |-> 0, active |-> FALSE, rider_count |-> 1]
    [] m = "Placer" -> [ref |-> 0, active |-> FALSE, x_velocity |-> 0]
    [] m = "Adder" -> [ref |-> 0, active |-> FALSE, useLastLine |-> TRUE,
                       multipleRiders |-> FALSE, maxRiders |-> 10, riderCount |-> 0,
                       x_init |-> 0, multi_rider_x |-> 2, multi_rider_y |-> 2]
    [] m = "Skew" -> [ref |-> 0, active |-> FALSE, skewX |-> 0, skewY |-> 0]
    [] m = "Editor" -> [ref |-> 0, active |-> FALSE, showRemount |-> FALSE, riders |-> 0]

\* the inputs each panel renders
Inputs(m) ==
  CASE m = "Template" -> {"width"}
    [] m = "Grid" -> {"rider_count_x", "rider_count_y"}
    [] m = "Sync" -> {"rider_count"}
    [] m = "Placer" -> {"x_velocity"}
    [] m = "Adder" -> {"maxRiders", "multipleRiders"}
    [] m = "Skew" -> {"skewX", "skewY"}
    [] m = "Editor" -> {"showRemount"}

InputValues(k) == IF k \in {"multipleRiders", "showRemount"} THEN BOOLEAN ELSE 0 .. MaxCount

\* setState merges into a new object: a new identity
NewState(st) == [st EXCEPT !.ref = 1 - @]

(* --------------------------- handler records ---------------------------- *)
Ctl(w) == <<w.state, w.changed, w.track, w.selectedPoints, w.riders, w.lines>>

\* the world at one moment of a handler, as far as the properties need it;
\* from: how many dispatches the handler had made by then
Snap(w) ==
  [active |-> w.state.active, changed |-> w.changed, out |-> Len(w.uncommitted),
   from |-> Len(w.log)]

NoSnap == [active |-> FALSE, changed |-> FALSE, out |-> 0, from |-> 0]

\* op: the handler; pre: the world it started in; ret, atReturn: what commit()
\* returned and the world at that moment (same: controller fields untouched);
\* ran, pass: whether componentWillUpdate called onUpdate(nextState), and the
\* world when it did
MkEv(op, w0, ret, wr, ran, wp, w) ==
  [op |-> op, pre |-> Snap(w0), ret |-> ret,
   atReturn |-> IF ret = "none" THEN NoSnap ELSE Snap(wr),
   same |-> IF ret = "none" THEN TRUE ELSE Ctl(wr) = Ctl(w0),
   ran |-> ran, pass |-> IF ran THEN Snap(wp) ELSE NoSnap,
   log |-> w.log, peak |-> w.peak, baked |-> w.baked,
   permanent |-> w.permanent,
   overflow |-> w.overflow]

Within(w) ==
  /\ w.committedEngine.riders <= MaxRiders
  /\ w.peak <= MaxScratch

Install(w, e) ==
  /\ Within(w)
  /\ UNCHANGED <<gravVars, selVars, memoVars, riderVars, gridVars, loadVars,
                 hostVars>>
  /\ state' = w.state
  /\ changed' = w.changed
  /\ track' = w.track
  /\ selectedPoints' = w.selectedPoints
  /\ riders' = w.riders
  /\ lines' = w.lines
  /\ committedEngine' = w.committedEngine
  /\ uncommitted' = w.uncommitted
  /\ selectTool' = w.selectTool
  /\ ev' = e
  /\ UNCHANGED mod

\* setState(next) from a handler: componentWillUpdate calls onUpdate(nextState)
SetState(op, w0, ret, wr, wp, next) ==
  LET w == Call(wp, "onUpdate", next)
  IN Install(w, MkEv(op, w0, ret, wr, TRUE, wp, w))

(* ------------------------------ UI handlers ----------------------------- *)
\* the mod's button; SkewModComponent first selects the select tool
OnActivate ==
  LET wp == IF mod = "Skew" /\ ~state.active THEN Call(World, "dispatch", setTool) ELSE World
  IN SetState("onActivate", World, "none", World, wp,
              NewState([state EXCEPT !.active = ~@]))

\* an input's onChange
OnChange(k, v) ==
  /\ k \in Inputs(mod)
  /\ SetState("onChange", World, "none", World, World, NewState([state EXCEPT ![k] = v]))

\* the Commit button (rendered while active). SkewModComponent resets its
\* inputs whatever commit() returned; the others deactivate if it committed
OnCommit ==
  /\ state.active
  /\ LET c == Call(World, "commit", state)
     IN IF mod = "Skew"
          THEN SetState("onCommit", World, c.ret, c, c,
                        NewState([c.state EXCEPT !.skewX = 0, !.skewY = 0]))
          ELSE IF c.ret = "true"
                 THEN SetState("onCommit", World, c.ret, c, c,
                               NewState([c.state EXCEPT !.active = FALSE]))
                 ELSE Install(c, MkEv("onCommit", World, c.ret, c, FALSE, c, c))

\* the Add Rider button of the bosh placer
OnAdd ==
  /\ mod = "Placer"
  /\ state.active
  /\ LET w == Call(World, "add", state)
     IN Install(w, MkEv("onAdd", World, "none", World, FALSE, World, w))

\* the Remove Rider button
OnRemove ==
  /\ mod \in {"Grid", "Sync", "Placer"}
  /\ state.active
  /\ LET w == Call(World, "remove", state)
     IN Install(w, MkEv("onRemove", World, "none", World, FALSE, World, w))

(* ------------------------------ host events ----------------------------- *)
\* the user edits the track and the host commits: whatever is on the scratch
\* layer is baked with it, and committedEngine is a new object
HostCommit ==
  LET w0 == [World EXCEPT
               !.committedEngine = [ref |-> FreshRef(World),
                                    riders |-> EngineRiders(World),
                                    hasLines |-> TRUE],
               !.uncommitted = <<>>]
      w == Exec(w0, <<Subscriber(w0)>>)
  IN Install(w, MkEv("hostCommit", World, "none", World, FALSE, World, w))

\* undo, redo or loading a track: committedEngine is replaced wholesale
HostReplaceTrack(r, hl) ==
  LET w0 == [World EXCEPT
               !.committedEngine = [ref |-> FreshRef(World), riders |-> r, hasLines |-> hl],
               !.uncommitted = <<>>]
      w == Exec(w0, <<Subscriber(w0)>>)
  IN Install(w, MkEv("hostReplaceTrack", World, "none", World, FALSE, World, w))

\* any other store change (camera, playback, ...)
HostNotify ==
  LET w == Exec(World, <<Subscriber(World)>>)
  IN Install(w, MkEv("hostNotify", World, "none", World, FALSE, World, w))

\* the select tool's selection changes
HostSelect(p) ==
  /\ mod = "Skew"
  /\ selectTool.active
  /\ p # selectTool.points
  /\ LET w0 == [World EXCEPT !.selectTool.points = p]
         w == Exec(w0, <<Subscriber(w0)>>)
     IN Install(w, MkEv("hostSelect", World, "none", World, FALSE, World, w))

\* another tool is picked: SkewModComponent's own store listener deactivates
HostSetTool ==
  /\ mod = "Skew"
  /\ selectTool.active
  /\ LET w0 == [World EXCEPT !.selectTool = [active |-> FALSE, points |-> 0]]
         wp == Exec(w0, <<Subscriber(w0)>>)
     IN IF wp.state.active
          THEN SetState("hostSetTool", World, "none", World, wp,
                        NewState([wp.state EXCEPT !.active = FALSE]))
          ELSE Install(wp, MkEv("hostSetTool", World, "none", World, FALSE, World, wp))

(* ----------------------------- specification ---------------------------- *)
\* the memoizing getter has not been read: no cache object, no counter
NoCache == [frameIndex |-> -1, gravityResults |-> <<>>]

\* the grid panel as constructed: inactive, nothing previewed
GridDefaults ==
  [active |-> FALSE, x |-> 0, y |-> 0, x_velocity |-> 4, y_velocity |-> 0,
   rider_count_x |-> 1, rider_count_y |-> 1, x_offset |-> 10, y_offset |-> 10]

\* the engine is between frames, the player is at index 0 and no animation
\* frame callback is waiting
NoHost ==
  /\ readPos = 0
  /\ playerIndex = 0
  /\ pending = <<>>
  /\ followerFrames = 0

\* the host is ready and every script has been loaded after that
NoLoading ==
  /\ NoHost
  /\ registerCustomSetting = TRUE
  /\ onCustomToolsApiReady = <<>>
  /\ loaded = <<>>
  /\ mains = <<>>

NoGrid ==
  /\ gridState = GridDefaults
  /\ committedRiders = <<>>
  /\ preview = <<>>
  /\ NoLoading

\* no rider library script has been called: no rider object exists
NoRiders ==
  /\ lib = "RiderManager"
  /\ heap = <<>>
  /\ made = [op |-> "none"]
  /\ NoGrid

NoMemo ==
  /\ NoRiders
  /\ cache = NoCache
  /\ counter = 0
  /\ memo = [op |-> "none", observed |-> -1, scannedNow |-> {}]

\* no Gravity API script has run and the scene has its one default rider
NoGravity ==
  /\ NoMemo
  /\ api = "mods"
  /\ items = <<>>
  /\ allGravityKeyframes = <<>>
  /\ hooked = FALSE
  /\ frameIndex = 1
  /\ gev = [op |-> "none"]
  /\ allRiders = <<"a">>
  /\ sel = [helper |-> "none"]

\* the controller m as its component constructs it
Constructed(m) ==
  /\ mod = m
  /\ state = InitState(mod)
  /\ changed = FALSE
  /\ committedEngine = [ref |-> 0, riders |-> 1, hasLines |-> FALSE]
  /\ track = committedEngine.ref
  /\ selectedPoints = 0
  /\ riders = 0
  /\ lines = FALSE
  /\ uncommitted = <<>>
  /\ selectTool = [active |-> FALSE, points |-> 0]
  /\ ev = [op |-> "init", pre |-> NoSnap, ret |-> "none", atReturn |-> NoSnap,
           same |-> TRUE, ran |-> FALSE, pass |-> NoSnap,
           log |-> <<>>, peak |-> 0, baked |-> 0, permanent |-> 0, overflow |-> FALSE]

Init ==
  /\ NoGravity
  /\ \E m \in Mods : Constructed(m)

Next ==
  \/ OnActivate
  \/ \E k \in Inputs(mod) : \E v \in InputValues(k) : OnChange(k, v)
  \/ OnCommit
  \/ OnAdd
  \/ OnRemove
  \/ HostCommit
  \/ \E r \in 0 .. MaxRiders : \E hl \in BOOLEAN : HostReplaceTrack(r, hl)
  \/ HostNotify
  \/ \E p \in 0 .. MaxSel : HostSelect(p)
  \/ HostSetTool

vars == <<modVars, gravVars, selVars, memoVars, riderVars, gridVars, loadVars,
          hostVars>>

Spec == Init /\ [][Next]_vars

(* ----------------------------- BoshEditorMod ---------------------------- *)
\* store.dispatch from the Bosh Editor: its listener calls onUpdate() with
\* this.state itself, which has no track check and so returns at once
EditorDispatch(w, a) == Dispatched(w, a, <<>>)

\* variant: the inactive check comes before the revert of the old preview
EditorOnUpdate_ReturnBeforeRevert(w, nextState) ==
  LET w1 == AdoptState(w, nextState)
      shouldUpdate == w.state.ref # nextState.ref
  IN IF ~shouldUpdate \/ ~w1.state.active THEN w1
     ELSE LET w2 == IF w1.changed
                      THEN [EditorDispatch(w1, revertTrackChanges) EXCEPT !.changed = FALSE]
                      ELSE w1
          IN [EditorDispatch(w2, setRiders(w2.state.riders)) EXCEPT !.changed = TRUE]

\* BoshEditorMod.onUpdate(nextState): a new configuration object reverts the
\* old preview and, while active, previews this.state.riders
EditorOnUpdate(w, nextState) ==
  LET w1 == AdoptState(w, nextState)
      shouldUpdate == w.state.ref # nextState.ref
      w2 == IF w1.changed
              THEN [EditorDispatch(w1, revertTrackChanges) EXCEPT !.changed = FALSE]
              ELSE w1
  IN IF ~shouldUpdate THEN w1
     ELSE IF ~w2.state.active THEN w2
     ELSE [EditorDispatch(w2, setRiders(w2.state.riders)) EXCEPT !.changed = TRUE]

EditorCommit(w) ==
  IF ~w.changed THEN [w EXCEPT !.ret = "false"]
  ELSE [EditorDispatch(EditorDispatch(w, commitTrackChanges), revertTrackChanges)
          EXCEPT !.changed = FALSE, !.ret = "true"]

\* setState(next) from a handler of BoshEditorModComponent
EditorSetState(op, ret, wr, next) ==
  LET w == EditorOnUpdate(wr, next)
  IN Install(w, MkEv(op, World, ret, wr, TRUE, wr, w))

\* the panel's handlers: the button takes the committed riders into the
\* state it activates with; a checkbox; the commit button
EditorHandler(op, v) ==
  /\ mod = "Editor"
  /\ CASE op = "onActivate" ->
            EditorSetState(op, "none", World,
                           NewState(IF state.active
                                      THEN [state EXCEPT !.active = FALSE]
                                      ELSE [state EXCEPT !.active = TRUE,
                                              !.riders = committedEngine.riders]))
       [] op = "onChange" ->
            EditorSetState(op, "none", World, NewState([state EXCEPT !.showRemount = v]))
       [] op = "onCommit" ->
            /\ state.active
            /\ LET c == EditorCommit(World)
               IN IF c.ret = "true"
                    THEN EditorSetState(op, c.ret, c,
                                        NewState([c.state EXCEPT !.active = FALSE]))
                    ELSE Install(c, MkEv(op, World, c.ret, c, FALSE, c, c))

\* host: a commit of the user's edit (hl: the track has lines afterwards) or
\* a replaced track with r riders; the Bosh Editor's listener does nothing
EditorHostEvent(op, r, hl) ==
  /\ mod = "Editor"
  /\ LET w == [World EXCEPT
                 !.committedEngine =
                    [ref |-> FreshRef(World),
                     riders |-> IF op = "hostCommit" THEN EngineRiders(World) ELSE r,
                     hasLines |-> hl],
                 !.uncommitted = <<>>]
     IN Install(w, MkEv(op, World, "none", World, FALSE, World, w))

\* the template, the synchronized riders, the bosh spawner or the Bosh Editor
\* is attached
InitControllers ==
  /\ NoGravity
  /\ \E m \in {"Template", "Sync", "Placer", "Editor"} : Constructed(m)

NextControllers ==
  \/ mod # "Editor" /\ OnActivate
  \/ mod # "Editor" /\ \E k \in Inputs(mod) : \E v \in InputValues(k) : OnChange(k, v)
  \/ mod # "Editor" /\ OnCommit
  \/ OnAdd
  \/ OnRemove
  \/ mod # "Editor" /\ HostCommit
  \/ mod # "Editor" /\ \E r \in 0 .. MaxRiders : \E hl \in BOOLEAN : HostReplaceTrack(r, hl)
  \/ mod # "Editor" /\ HostNotify
  \/ \E op \in {"onActivate", "onChange", "onCommit"} : \E v \in BOOLEAN :
       EditorHandler(op, v)
  \/ \E op \in {"hostCommit", "hostReplaceTrack"} : \E r \in 0 .. MaxRiders :
       \E hl \in BOOLEAN : EditorHostEvent(op, r, hl)

SpecControllers == InitControllers /\ [][NextControllers]_vars


(* ============================== properties ============================== *)
\* dispatches of the given type among the entries of a log after position from
CountFrom(log, from, type) ==
  Cardinality({i \in (from + 1) .. Len(log) : log[i].type = type})

\* the dispatches commit() made itself, in order (depth 0, before it returned)
OwnTypes(log, upto) ==
  LET idx == {i \in 1 .. upto : log[i].depth = 0}
      RECURSIVE Collect(_)
      Collect(i) == IF i > upto THEN <<>>
                    ELSE IF i \in idx THEN <<log[i].type>> \o Collect(i + 1)
                    ELSE Collect(i + 1)
  IN Collect(1)

C1Mods == {"Template", "Grid", "Skew"}

\* C1: recompute then commit. When commit() is called on an active
\* TemplateMod, grid RiderMod or SkewMod with its preview outstanding, and the
\* store re-invokes onUpdate on every dispatch, exactly one entry is added to
\* the undo history, that entry contains the preview once, and at the return
\* of commit() nothing is left on the scratch layer and changed is false.
C1_RecomputeThenCommit ==
  (mod \in C1Mods /\ ev.op = "onCommit" /\ ev.pre.active /\ ev.pre.out > 0)
    => /\ ev.ret = "true"
       /\ ev.permanent = 1
       /\ ev.baked = 1
       /\ ev.atReturn.out = 0
       /\ ev.atReturn.changed = FALSE

\* commit() ran with a preview outstanding and the nested onUpdate pass, seeing
\* the new committedEngine, previewed again from inside the commit dispatch
C1_Witness ==
  /\ mod \in C1Mods
  /\ ev.op = "onCommit"
  /\ ev.pre.out = 1
  /\ ev.ret = "true"
  /\ \E i \in 1 .. ev.atReturn.from : ev.log[i].depth = 1 /\ ev.log[i].type = "UPDATE_LINES"

\* C32: at the end of every UI handler and every store notification, a
\* controller whose configuration is inactive has changed = false and no
\* preview edit on the host's scratch layer.
C32_InactiveImpliesClean ==
  ~state.active => (~changed /\ uncommitted = <<>>)

\* the Bosh Editor's button was pressed while its preview was outstanding:
\* the preview is gone and the flag is down
C32_Witness ==
  /\ mod = "Editor"
  /\ ev.op = "onActivate"
  /\ ev.pre.active /\ ev.pre.changed /\ ev.pre.out = 1
  /\ ~state.active /\ ~changed /\ uncommitted = <<>>

\* C33: every add() of the bosh spawner dispatches exactly one SET_RIDERS
\* whose list is the engine's current rider list with one rider appended (so
\* no existing rider is lost, also when add() follows add() with no other
\* store change in between), and when the track has no lines it dispatches
\* nothing and leaves changed as it was.
C33_AddAppendsOne ==
  [][ev'.op = "onAdd" =>
       IF EngineHasLines(World)
         THEN /\ Len(ev'.log) = 1
              /\ ev'.log[1].type = "SET_RIDERS"
              /\ uncommitted' # <<>>
              /\ uncommitted'[Len(uncommitted')] = setRiders(EngineRiders(World) + 1)
         ELSE /\ ev'.log = <<>>
              /\ changed' = changed
              /\ uncommitted' = uncommitted]_vars

\* C2: at most one uncommitted edit is outstanding: no handler ever puts a
\* preview edit on the scratch layer while an earlier one is still there.
C2_AtMostOneUncommitted == ev.peak <= 1 /\ Len(uncommitted) <= 1

C3Mods == {"Sync", "Template", "Skew"}

\* the handler ended with an onUpdate(nextState) pass that took active from
\* true to false
Deactivated == ev.ran /\ ev.pass.active /\ ~state.active

\* C3: the onUpdate pass that takes active from true to false dispatches
\* exactly one REVERT_TRACK_CHANGES if a preview edit was outstanding when it
\* started, and none otherwise (as after a successful commit).
C3_DeactivateReverts ==
  (mod \in C3Mods /\ Deactivated)
    => CountFrom(ev.log, ev.pass.from, "REVERT_TRACK_CHANGES")
         = IF ev.pass.out > 0 THEN 1 ELSE 0

\* the mod button was pressed while a preview was outstanding, and it was reverted
C3_Witness ==
  /\ mod \in C3Mods
  /\ ev.op = "onActivate"
  /\ Deactivated
  /\ ev.pass.out = 1
  /\ uncommitted = <<>>
  /\ CountFrom(ev.log, ev.pass.from, "REVERT_TRACK_CHANGES") = 1

\* C4: while the mod is inactive before and after, configuration changes and
\* host store notifications (track replacements included) dispatch nothing.
C4_InactiveNoDispatch ==
  (ev.op # "init" /\ ~ev.pre.active /\ ~state.active) => ev.log = <<>>

\* an input changed while inactive, after the host had replaced the track
\* behind the inactive mod's back
C4_Witness ==
  /\ ev.op = "onChange"
  /\ ~ev.pre.active
  /\ ~state.active
  /\ track # committedEngine.ref
  /\ ev.log = <<>>

C5Mods == {"Adder", "Sync"}

\* C5: changed is true exactly when a preview edit of the controller is
\* outstanding, and a recompute whose output is empty dispatches no preview.
C5_ChangedIffOutstanding ==
  mod \in C5Mods =>
    /\ changed <=> (uncommitted # <<>>)
    /\ (mod = "Sync" /\ state.active /\ state.rider_count = 0) => uncommitted = <<>>

C6Mods == {"Template", "Adder", "Skew"}

\* C6: commit() dispatches COMMIT_TRACK_CHANGES and then REVERT_TRACK_CHANGES
\* and returns true exactly when an uncommitted edit is outstanding; otherwise
\* it dispatches nothing, leaves the controller untouched and returns a
\* non-true value.
C6_CommitBridge ==
  (mod \in C6Mods /\ ev.op = "onCommit")
    => LET own == OwnTypes(ev.log, ev.atReturn.from)
       IN IF ev.pre.out > 0
            THEN /\ ev.ret = "true"
                 /\ Len(own) >= 2
                 /\ own[1] = "COMMIT_TRACK_CHANGES"
                 /\ own[2] = "REVERT_TRACK_CHANGES"
            ELSE /\ ev.ret # "true"
                 /\ ev.atReturn.from = 0
                 /\ ev.same

\* C11: no re-entrant reconciliation. Whenever a controller dispatches from
\* inside an onUpdate pass and the store calls its subscriber back before the
\* dispatch returns, that nested pass dispatches nothing: no dispatch is ever
\* made by a pass that answers a dispatch of another onUpdate pass.
C11_NoNestedReconciliation ==
  \A i \in 1 .. Len(ev.log) : ev.log[i].outer # "onUpdate"

\* the store replaced committedEngine under an active mod with its preview
\* outstanding: the pass reverted and previewed again, each dispatch calling
\* the subscriber back, and only the pass itself dispatched
C11_Witness ==
  /\ ev.op = "hostReplaceTrack"
  /\ ev.pre.active
  /\ ev.pre.out > 0
  /\ Len(ev.log) >= 2
  /\ \A i \in 1 .. Len(ev.log) : ev.log[i].depth = 0
  /\ \E i \in 1 .. Len(ev.log) : ev.log[i].type = "REVERT_TRACK_CHANGES"
  /\ \E i \in 1 .. Len(ev.log) : IsPreview(ev.log[i])

C12Mods == {"Template", "Grid"}

\* the preview edit a recompute of the controller dispatches for the current
\* configuration and committedEngine
C12Preview ==
  IF mod = "Template" THEN addLines(genLines(state))
  ELSE setRiders(committedEngine.riders + state.rider_count_y * state.rider_count_x)

\* the handler was a host replacement of committedEngine (a host commit, an
\* undo, redo or load) notified to an active controller
C12Replaced == ev.op \in {"hostCommit", "hostReplaceTrack"} /\ ev.pre.active

\* C12: the snapshot is tracked by reference. While TemplateMod or the grid
\* RiderMod is active, after every handler this.track is the store's current
\* committedEngine object and an outstanding preview is the one computed from
\* the current configuration and that committedEngine; every replacement of
\* committedEngine notified while active is answered by a revert (if a preview
\* was outstanding) followed by a recompute; a replacement made while inactive
\* is adopted by the pass that activates.
C12_SnapshotByReference ==
  (mod \in C12Mods /\ state.active) =>
    /\ track = committedEngine.ref
    /\ uncommitted # <<>> => uncommitted = <<C12Preview>>
    /\ C12Replaced =>
         /\ [i \in 1 .. Len(ev.log) |-> ev.log[i].type]
              = (IF ev.pre.changed THEN <<"REVERT_TRACK_CHANGES">> ELSE <<>>)
                  \o <<C12Preview.type>>
         /\ uncommitted = <<C12Preview>>
         /\ changed

\* the host replaced committedEngine under the active grid RiderMod, whose
\* preview was outstanding: it reverted, adopted the new object and previewed
\* the grid on top of the new committed riders
C12_Witness ==
  /\ mod = "Grid"
  /\ C12Replaced
  /\ ev.op = "hostReplaceTrack"
  /\ ev.pre.changed
  /\ state.active
  /\ track = committedEngine.ref
  /\ Len(ev.log) = 2
  /\ uncommitted = <<C12Preview>>
  /\ committedEngine.riders = 2

C13Mods == {"Template", "Sync", "Placer"}

\* handlers that are one call of the subscriber, onUpdate() with nextState =
\* this.state: the configuration reference is unchanged
C13HostOps == {"hostNotify", "hostCommit", "hostReplaceTrack"}

\* the host snapshot is not dirty for the pass of the next handler: the mod is
\* inactive, or the notification left the host data the controller caches
\* as it is (committedEngine; for the bosh placer, which caches the engine's
\* riders and lines instead, those)
C13NotDirty ==
  \/ ~state.active
  \/ /\ ev'.op = "hostNotify"
     /\ IF mod = "Placer"
          THEN riders = EngineRiders(World) /\ lines = EngineHasLines(World)
          ELSE track = committedEngine.ref

\* C13: an onUpdate pass with the configuration reference unchanged and the
\* host snapshot not dirty has no side effects: it dispatches nothing and
\* leaves changed, the cached snapshot and the configuration as they were
\* (TemplateMod, synchronized RiderMod, bosh placer RiderMod).
C13_CleanPassNoEffect ==
  [][(mod \in C13Mods /\ ev'.op \in C13HostOps /\ C13NotDirty)
       => /\ ev'.log = <<>>
          /\ changed' = changed
          /\ state' = state
          /\ track' = track
          /\ riders' = riders
          /\ lines' = lines]_vars

\* a store notification reached an active controller whose preview was
\* outstanding and whose cached committedEngine was current: nothing happened
C13_Witness ==
  /\ mod \in C13Mods
  /\ ev.op = "hostNotify"
  /\ state.active
  /\ changed
  /\ uncommitted # <<>>
  /\ mod # "Placer" => track = committedEngine.ref
  /\ ev.log = <<>>

\* C14: the configuration record is written by the UI handlers only. A
\* subscriber call leaves the configuration object as it is, and after the
\* mod button or an input's onChange the controller holds exactly the object
\* setState made: the old fields with the one the handler set.
C14_ConfigWrittenByUIOnly ==
  [][/\ ev'.op \in C13HostOps => state' = state
     /\ ev'.op = "onActivate" => state' = NewState([state EXCEPT !.active = ~@])
     /\ ev'.op = "onChange" =>
          \E k \in Inputs(mod) : \E v \in InputValues(k) :
            state' = NewState([state EXCEPT ![k] = v])]_vars


\* C27: after a panel's onCommit handler the panel is deactivated exactly if
\* commit() returned true, and a commit press with nothing outstanding leaves
\* the panel's state as it was.
C27_AutoDeactivation ==
  [][ev'.op = "onCommit" =>
       /\ ~state'.active <=> ev'.ret = "true"
       /\ ev'.ret = "false" => state' = state]_vars


(* ===================== contact-point selection helpers ================== *)
\* PointGroups.all and PointGroups.sled
allPoints == [k \in 1 .. 17 |-> k - 1]

sledPoints == <<0, 1, 2, 3>>

\* variant: a stride of 16 points per rider
GlobalIndex_Stride16(riderIndex, cpIndex) == riderIndex * 16 + cpIndex

\* contactPoints.push(riderIndex * 17 + cpIndex)
GlobalIndex(riderIndex, cpIndex) == riderIndex * 17 + cpIndex

RECURSIVE toContactPoints(_, _)
\* RiderSelection.toContactPoints(points = allPoints): for each rider index,
\* for each point
toContactPoints(riderIndices, points) ==
  IF riderIndices = <<>> THEN <<>>
  ELSE [k \in 1 .. Len(points) |-> GlobalIndex(Head(riderIndices), points[k])]
         \o toContactPoints(Tail(riderIndices), points)

\* Array.prototype.indexOf: first position (from 0) of the object, or -1
indexOf(array, x) ==
  IF \E i \in 1 .. Len(array) : array[i] = x
    THEN (CHOOSE i \in 1 .. Len(array) :
            array[i] = x /\ \A j \in 1 .. (i - 1) : array[j] # x) - 1
    ELSE -1

groupSize == 17

RECURSIVE createContactPointsArray(_, _)
\* riders.forEach: the 17 indices of every rider found in the scene
createContactPointsArray(scene, selected) ==
  IF selected = <<>> THEN <<>>
  ELSE LET riderIndex == indexOf(scene, Head(selected))
           contactPoints == IF riderIndex # -1
                              THEN [j \in 1 .. groupSize |-> riderIndex * groupSize + (j - 1)]
                              ELSE <<>>
       IN contactPoints \o createContactPointsArray(scene, Tail(selected))

\* an argument that may or may not be an array
Arr(value) == [isArray |-> TRUE, value |-> value]

NotArray == [isArray |-> FALSE, value |-> <<>>]

\* variant: a non-array is taken as no points
only_Unchecked(riderIndices, points) ==
  [thrown |-> FALSE, out |-> toContactPoints(riderIndices, points.value)]

\* RiderSelection.only(points)
only(riderIndices, points) ==
  IF ~points.isArray THEN [thrown |-> TRUE, out |-> <<>>]
  ELSE [thrown |-> FALSE, out |-> toContactPoints(riderIndices, points.value)]

\* RiderSelection.exclude(points)
exclude(riderIndices, points) ==
  IF ~points.isArray THEN [thrown |-> TRUE, out |-> <<>>]
  ELSE LET includedPoints ==
             SelectSeq(allPoints,
                       LAMBDA p : \A k \in 1 .. Len(points.value) : points.value[k] # p)
       IN [thrown |-> FALSE, out |-> toContactPoints(riderIndices, includedPoints)]

\* the scripts that attach keepOnly to a contact-point array: the first
\* RiderManager API script and the Multirider API (1.0) test membership of the
\* global index, the second RiderManager API script of the index modulo 17
KeepOnlyScripts == {"RiderManager", "Multirider", "RiderManager2"}

\* contactPoints.keepOnly = function (points) { return this.filter(...) }
keepOnly(script, contactPoints, points) ==
  LET key(point) == IF script = "RiderManager2" THEN point % 17 ELSE point
  IN SelectSeq(contactPoints,
               LAMBDA point : \E k \in 1 .. Len(points) : points[k] = key(point))

\* rider.groups of the scene's rider objects
GroupsOf(r) == IF r = "a" THEN {"g"} ELSE IF r = "b" THEN {"g", "h"} ELSE {}

GroupNames == {"g", "h"}

\* getRiderAt(index): the rider at the index, none when it is out of range
getRiderAt(scene, index) ==
  IF index < 0 \/ index >= Len(scene)
    THEN createContactPointsArray(scene, <<>>)
    ELSE createContactPointsArray(scene, <<scene[index + 1]>>)

\* getByGroup(groupName) / getPointsByGroup(groupName): the scene's riders
\* tagged with the group, in scene order
getByGroup(scene, groupName) ==
  createContactPointsArray(scene,
    SelectSeq(scene, LAMBDA r : groupName \in GroupsOf(r)))

\* the gravity getter: which rider and point a read belongs to, the global
\* index it evaluates, and the decomposition it hands to the effects
iterationsPerRider == 17

currentRiderIndex(globalIteration, numRiders) ==
  ((globalIteration - 1) \div iterationsPerRider) % numRiders

currentContactPoint(globalIteration) == (globalIteration - 1) % iterationsPerRider

GlobalCpIndex(riderIndex, contactPoint) == riderIndex * 17 + contactPoint

RiderIndexOf(globalCpIndex) == globalCpIndex \div 17

ContactPointOf(globalCpIndex) == globalCpIndex % 17

\* rider objects of a scene are distinct records (makeRider builds a fresh one)
RiderObjs == {"a", "b", "c"}

RidersUpTo(n) ==
  {rs \in UNION {[1 .. k -> RiderObjs] : k \in 0 .. n} :
     \A i, j \in 1 .. Len(rs) : i # j => rs[i] # rs[j]}

IndexLists == UNION {[1 .. k -> 0 .. MaxRiderIndex] : k \in 1 .. 2}

PointLists == {allPoints, sledPoints, <<16>>, <<>>}

\* host: the scene's riders are replaced (SET_RIDERS committed)
SceneSetRiders(rs) ==
  /\ allRiders' = rs
  /\ sel' = [helper |-> "none"]
  /\ UNCHANGED <<modVars, gravVars, memoVars, riderVars, gridVars, loadVars,
                 hostVars>>

ToContactPoints(riderIndices, points) ==
  /\ sel' = [helper |-> "toContactPoints", riderIndices |-> riderIndices,
             points |-> points, riders |-> <<>>,
             out |-> toContactPoints(riderIndices, points)]
  /\ UNCHANGED <<allRiders, modVars, gravVars, memoVars, riderVars, gridVars, loadVars,
                 hostVars>>

CreateContactPointsArray(rs) ==
  /\ sel' = [helper |-> "createContactPointsArray", riderIndices |-> <<>>,
             points |-> allPoints, riders |-> rs,
             out |-> createContactPointsArray(allRiders, rs)]
  /\ UNCHANGED <<allRiders, modVars, gravVars, memoVars, riderVars, gridVars, loadVars,
                 hostVars>>

\* getRiderAt(index).keepOnly(points)
GetRiderAtKeepOnly(script, index, points) ==
  /\ sel' = [helper |-> "getRiderAt.keepOnly", script |-> script,
             index |-> index, points |-> points,
             out |-> keepOnly(script, getRiderAt(allRiders, index), points)]
  /\ UNCHANGED <<allRiders, modVars, gravVars, memoVars, riderVars, gridVars, loadVars,
                 hostVars>>

\* getByGroup(groupName).keepOnly(points)
GetByGroupKeepOnly(script, groupName, points) ==
  /\ sel' = [helper |-> "getByGroup.keepOnly", script |-> script,
             group |-> groupName, points |-> points,
             out |-> keepOnly(script, getByGroup(allRiders, groupName), points)]
  /\ UNCHANGED <<allRiders, modVars, gravVars, memoVars, riderVars, gridVars, loadVars,
                 hostVars>>

\* getRiders(...).only(points) / .exclude(points)
OnlyOrExclude(helper, riderIndices, points) ==
  /\ LET r == IF helper = "only" THEN only(riderIndices, points)
              ELSE exclude(riderIndices, points)
     IN sel' = [helper |-> helper, riderIndices |-> riderIndices, points |-> points,
                thrown |-> r.thrown, out |-> r.out]
  /\ UNCHANGED <<allRiders, modVars, gravVars, memoVars, riderVars, gridVars, loadVars,
                 hostVars>>

InitSelect ==
  /\ Constructed("Template")
  /\ api = "mods" /\ items = <<>> /\ allGravityKeyframes = <<>> /\ hooked = FALSE
  /\ frameIndex = 1 /\ gev = [op |-> "none"]
  /\ allRiders \in RidersUpTo(MaxRiderIndex + 1)
  /\ sel = [helper |-> "none"]
  /\ NoMemo

NextSelect ==
  \/ \E rs \in RidersUpTo(MaxRiderIndex + 1) : SceneSetRiders(rs)
  \/ \E ri \in IndexLists : \E pts \in PointLists : ToContactPoints(ri, pts)
  \/ \E rs \in RidersUpTo(2) : CreateContactPointsArray(rs)
  \/ \E h \in {"only", "exclude"} : \E ri \in IndexLists :
       \E pts \in {Arr(sledPoints), Arr(<<>>), NotArray} : OnlyOrExclude(h, ri, pts)
  \/ \E sc \in KeepOnlyScripts : \E i \in 0 .. (MaxRiderIndex + 1) :
       \E pts \in PointLists : GetRiderAtKeepOnly(sc, i, pts)
  \/ \E sc \in KeepOnlyScripts : \E g \in GroupNames :
       \E pts \in PointLists : GetByGroupKeepOnly(sc, g, pts)

SpecSelect == InitSelect /\ [][NextSelect]_vars


(* ===================== rider library: makeRider, repeatRider ============ *)
\* the scripts that define makeRider and repeatRider: the RiderManager API
\* (both scripts of the file) and the Multirider API 1.0 take
\* (rider, count, groups, modifiers); the Multirider API 1.1 has the chainable
\* repeatRider(groups, count, baseRider)
Libs == {"RiderManager", "Multirider11"}

\* a falsy groups argument (undefined, null, ""), told apart from every set
\* of group names
Missing == {"<falsy>"}

\* a reference that is null or undefined
NoRef == 0

\* { x, y }
Vec(x, y) == [kind |-> "vec", x |-> x, y |-> y]

\* new Set(elems)
SetObj(elems) == [kind |-> "set", elems |-> elems]

\* makeRider's props argument
Props(startPosition, startVelocity, startAngle) ==
  [startPosition |-> startPosition, startVelocity |-> startVelocity,
   startAngle |-> startAngle]

\* RiderManager makeRider(groups, props): throws without a group; a fresh Set
\* of the groups; props.startPosition || { x: 0, y: 0 }, likewise the velocity
makeRider(h, groups, props) ==
  IF groups = Missing THEN [heap |-> h, ref |-> NoRef, thrown |-> TRUE]
  ELSE LET h1 == Append(h, SetObj(groups))
           groupSet == Len(h1)
           h2 == IF props.startPosition = NoRef THEN Append(h1, Vec(0, 0)) ELSE h1
           pos == IF props.startPosition = NoRef THEN Len(h2) ELSE props.startPosition
           h3 == IF props.startVelocity = NoRef THEN Append(h2, Vec(0, 0)) ELSE h2
           vel == IF props.startVelocity = NoRef THEN Len(h3) ELSE props.startVelocity
           h4 == Append(h3, [kind |-> "rider", groups |-> groupSet,
                             startPosition |-> pos, startVelocity |-> vel,
                             startAngle |-> props.startAngle,
                             remountable |-> TRUE])
       IN [heap |-> h4, ref |-> Len(h4), thrown |-> FALSE]

\* the modifiers argument: absent modifiers are "none"; startPosition
\* (p, i) => ({ x: p.x + i * 5, y: p.y }); groups (g, i) => g.add("extra")
Modifiers == [startPosition : {"none", "shift"}, groups : {"none", "add"}]

\* variant: the base's position object is handed on instead of a copy
RepeatPosition_Shared(h, rider, i, modifiers) ==
  IF modifiers.startPosition = "shift"
    THEN Append(h, Vec(h[h[rider].startPosition].x + i * 5, h[h[rider].startPosition].y))
    ELSE h

\* props.startPosition of the i-th rider: the modifier's result, or
\* { ...rider.startPosition }; the new object is the heap's last
RepeatPosition(h, rider, i, modifiers) ==
  IF modifiers.startPosition = "shift"
    THEN Append(h, Vec(h[h[rider].startPosition].x + i * 5, h[h[rider].startPosition].y))
    ELSE Append(h, h[h[rider].startPosition])

RECURSIVE RepeatLoop(_, _, _, _, _, _, _)
\* for (let i = 0; i < count; i++) { ...; result.push(makeRider(thisGroups, props)) }
RepeatLoop(h, rider, i, count, groupSet, modifiers, result) ==
  IF i >= count THEN [heap |-> h, out |-> result, thrown |-> FALSE]
  ELSE LET h1 == RepeatPosition(h, rider, i, modifiers)
           pos == IF Len(h1) > Len(h) THEN Len(h1) ELSE h[rider].startPosition
           h2 == Append(h1, h[h[rider].startVelocity])
           thisGroups == IF modifiers.groups = "add" THEN groupSet \cup {"extra"}
                         ELSE groupSet
           r == makeRider(h2, thisGroups, Props(pos, Len(h2), h[rider].startAngle))
       IN IF r.thrown THEN [heap |-> h, out |-> result, thrown |-> TRUE]
          ELSE RepeatLoop(r.heap, rider, i + 1, count, groupSet, modifiers,
                          Append(result, r.ref))

\* RiderManager repeatRider(rider, count, groups, modifiers)
repeatRider(h, rider, count, groups, modifiers) ==
  IF groups = Missing THEN [heap |-> h, out |-> <<>>, thrown |-> TRUE]
  ELSE RepeatLoop(h, rider, 0, count, groups, modifiers, <<>>)

\* Multirider 1.1 makeRider(groups, startPosX, startPosY, startVelX, startVelY,
\* startAngle, remountable): a missing group becomes no groups
MultiriderMakeRider(h, groups, startPosX, startPosY, startVelX, startVelY, startAngle, remountable) ==
  LET h1 == Append(h, SetObj(IF groups = Missing THEN {} ELSE groups))
      h2 == Append(h1, Vec(startPosX, startPosY))
      h3 == Append(h2, Vec(startVelX, startVelY))
      h4 == Append(h3, [kind |-> "rider", groups |-> Len(h1),
                        startPosition |-> Len(h2), startVelocity |-> Len(h3),
                        startAngle |-> startAngle, remountable |-> remountable])
  IN [heap |-> h4, ref |-> Len(h4), thrown |-> FALSE]

\* rider.copy() of a Multirider 1.1 rider
copy(h, rider) ==
  MultiriderMakeRider(h, h[h[rider].groups].elems,
                      h[h[rider].startPosition].x, h[h[rider].startPosition].y,
                      h[h[rider].startVelocity].x, h[h[rider].startVelocity].y,
                      h[rider].startAngle, h[rider].remountable)

RECURSIVE RepeaterLoop(_, _, _, _, _)
\* for (let i = 0; i < count; i++) { this.push(template.copy()) }
RepeaterLoop(h, template, i, count, result) ==
  IF i >= count THEN [heap |-> h, out |-> result, thrown |-> FALSE]
  ELSE LET r == copy(h, template)
       IN RepeaterLoop(r.heap, template, i + 1, count, Append(result, r.ref))

\* new RiderRepeater(groups, count, baseRider)
RiderRepeater(h, groups, count, baseRider) ==
  LET made0 == MultiriderMakeRider(h, groups, 0, 0, 0, 0, 0, TRUE)
      h1 == IF baseRider = NoRef THEN made0.heap ELSE h
      template == IF baseRider = NoRef THEN made0.ref ELSE baseRider
  IN RepeaterLoop(h1, template, 0, count, <<>>)

\* the chainable modifiers, with the functions of the help text:
\* .x((x, i) => i * 10), .y likewise, .vx((vx, i) => 1), .vy likewise,
\* .angle((a, i) => i), .group((g, i) => g.add("extra"))
Chainables == {"x", "y", "vx", "vy", "angle", "group"}

RECURSIVE Chain(_, _, _, _)
\* this.forEach((rider, i) => { rider.<field> = fn(rider.<field>, i) })
Chain(h, which, out, i) ==
  IF i >= Len(out) THEN h
  ELSE LET rider == out[i + 1]
           h1 == CASE which = "x" -> [h EXCEPT ![h[rider].startPosition].x = i * 10]
                   [] which = "y" -> [h EXCEPT ![h[rider].startPosition].y = i * 10]
                   [] which = "vx" -> [h EXCEPT ![h[rider].startVelocity].x = 1]
                   [] which = "vy" -> [h EXCEPT ![h[rider].startVelocity].y = 1]
                   [] which = "angle" -> [h EXCEPT ![rider].startAngle = i]
                   [] which = "group" ->
                        [h EXCEPT ![h[rider].groups].elems = @ \cup {"extra"}]
       IN Chain(h1, which, out, i + 1)

\* the base rider of the user's script, made with the loaded library
BaseHeap(l, x0) ==
  IF l = "RiderManager"
    THEN makeRider(<<Vec(x0, 0)>>, {"b"}, Props(1, NoRef, 0)).heap
    ELSE MultiriderMakeRider(<<>>, {"b"}, x0, 0, 0, 0, 0, TRUE).heap

\* the base rider is the last object of the base heap
BaseRef == Len(BaseHeap("RiderManager", 0))

\* objects that only a previous call's result referred to are unreachable
Live(h) == SubSeq(h, 1, BaseRef)

BaseXs == {0, 2}

GroupArgs == {Missing, {}, {"g"}, {"g", "h"}}

\* repeatRider(base, count, groups, modifiers) of the RiderManager API
RepeatRider(count, groups, modifiers) ==
  /\ lib = "RiderManager"
  /\ LET r == repeatRider(Live(heap), BaseRef, count, groups, modifiers)
     IN /\ heap' = r.heap
        /\ made' = [op |-> "repeatRider", count |-> count, groups |-> groups,
                    modifiers |-> modifiers, base |-> BaseRef, which |-> "none",
                    before |-> Live(heap), thrown |-> r.thrown, out |-> r.out]
  /\ UNCHANGED <<lib, modVars, gravVars, selVars, memoVars, gridVars, loadVars,
                 hostVars>>

\* makeRider(groups) of either library
MakeRider(groups) ==
  /\ LET r == IF lib = "RiderManager"
                THEN makeRider(Live(heap), groups, Props(NoRef, NoRef, 0))
                ELSE MultiriderMakeRider(Live(heap), groups, 0, 0, 0, 0, 0, TRUE)
     IN /\ heap' = r.heap
        /\ made' = [op |-> "makeRider", count |-> 1, groups |-> groups,
                    modifiers |-> "none", base |-> NoRef, which |-> "none",
                    before |-> Live(heap), thrown |-> r.thrown,
                    out |-> IF r.thrown THEN <<>> ELSE <<r.ref>>]
  /\ UNCHANGED <<lib, modVars, gravVars, selVars, memoVars, gridVars, loadVars,
                 hostVars>>

\* repeatRider(groups, count, baseRider) of the Multirider API 1.1
ChainRepeatRider(groups, count, withBase) ==
  /\ lib = "Multirider11"
  /\ LET baseRider == IF withBase THEN BaseRef ELSE NoRef
         r == RiderRepeater(Live(heap), groups, count, baseRider)
     IN /\ heap' = r.heap
        /\ made' = [op |-> "RiderRepeater", count |-> count, groups |-> groups,
                    modifiers |-> "none", base |-> baseRider, which |-> "none",
                    before |-> Live(heap), thrown |-> r.thrown, out |-> r.out]
  /\ UNCHANGED <<lib, modVars, gravVars, selVars, memoVars, gridVars, loadVars,
                 hostVars>>

\* a chainable modifier applied to the result of the last repeatRider
ChainModifier(which) ==
  /\ lib = "Multirider11"
  /\ made.op \in {"RiderRepeater", "chain"}
  /\ heap' = Chain(heap, which, made.out, 0)
  /\ made' = [made EXCEPT !.op = "chain", !.which = which, !.before = heap]
  /\ UNCHANGED <<lib, modVars, gravVars, selVars, memoVars, gridVars, loadVars,
                 hostVars>>

InitRiders ==
  /\ Constructed("Template")
  /\ api = "mods" /\ items = <<>> /\ allGravityKeyframes = <<>> /\ hooked = FALSE
  /\ frameIndex = 1 /\ gev = [op |-> "none"]
  /\ allRiders = <<>> /\ sel = [helper |-> "none"]
  /\ cache = NoCache /\ counter = 0
  /\ memo = [op |-> "none", observed |-> -1, scannedNow |-> {}]
  /\ NoGrid
  /\ lib \in Libs
  /\ \E x0 \in BaseXs : heap = BaseHeap(lib, x0)
  /\ made = [op |-> "none"]

NextRiders ==
  \/ \E n \in 0 .. MaxRepeat : \E g \in GroupArgs : \E m \in Modifiers :
       RepeatRider(n, g, m)
  \/ \E g \in GroupArgs : MakeRider(g)
  \/ \E g \in GroupArgs : \E n \in 0 .. MaxRepeat : \E b \in BOOLEAN :
       ChainRepeatRider(g, n, b)
  \/ \E which \in Chainables : ChainModifier(which)

SpecRiders == InitRiders /\ [][NextRiders]_vars


(* ================ grid RiderMod: the rider records it previews ========== *)
\* the rider records of the recompute: rows outside, columns inside; the
\* velocities are in tenths (x_velocity 4 is 0.4)
GridRider_RowsAsColumns(st, ix, iy) ==
  [startPosition |-> [x |-> st.x + iy * st.x_offset, y |-> st.y + ix * st.y_offset],
   startVelocity |-> [x |-> st.x_velocity, y |-> st.y_velocity],
   remountable |-> 1, createdUsingMod |-> TRUE]

GridRider(st, ix, iy) ==
  [startPosition |-> [x |-> st.x + ix * st.x_offset, y |-> st.y + iy * st.y_offset],
   startVelocity |-> [x |-> st.x_velocity, y |-> st.y_velocity],
   remountable |-> 1, createdUsingMod |-> TRUE]

\* for (iy ...) for (ix ...) new_riders.push({...})
GridNewRiders(st) ==
  [k \in 1 .. (st.rider_count_y * st.rider_count_x) |->
     GridRider(st, (k - 1) % st.rider_count_x, (k - 1) \div st.rider_count_x)]

\* a rider of the committed track, not made by the mod
HostRider == [startPosition |-> [x |-> 100, y |-> 100],
              startVelocity |-> [x |-> 4, y |-> 0], remountable |-> 1,
              createdUsingMod |-> FALSE]

\* the values the panel's number and slider inputs deliver (parseFloat)
GridValues(k) ==
  IF k \in {"rider_count_x", "rider_count_y"} THEN 0 .. MaxGrid
  ELSE IF k \in {"x_offset", "y_offset"} THEN {10, -4}
  ELSE IF k \in {"x", "y"} THEN {0, 3}
  ELSE {0, 4}

GridKeys == {"rider_count_x", "rider_count_y", "x_offset", "y_offset", "x", "y",
             "x_velocity", "y_velocity"}

\* the active mod's pass after a change: the previous preview reverted, then
\* setRiders([...committed_riders, ...new_riders])
GridRecompute(st, committed_riders) == committed_riders \o GridNewRiders(st)

\* a number or slider input of the active panel: setState, componentWillUpdate,
\* onUpdate(nextState)
GridChange(k, v) ==
  /\ gridState.active
  /\ gridState' = [gridState EXCEPT ![k] = v]
  /\ preview' = GridRecompute(gridState', committedRiders)
  /\ UNCHANGED <<committedRiders, modVars, gravVars, selVars, memoVars, riderVars, loadVars,
                 hostVars>>

\* host: the committed track gets another rider list; the subscriber's pass
\* of the active mod recomputes
GridHostRiders(n) ==
  /\ gridState.active
  /\ committedRiders' = [k \in 1 .. n |-> HostRider]
  /\ preview' = GridRecompute(gridState, committedRiders')
  /\ UNCHANGED <<gridState, modVars, gravVars, selVars, memoVars, riderVars, loadVars,
                 hostVars>>

InitGrid ==
  /\ Constructed("Grid")
  /\ api = "mods" /\ items = <<>> /\ allGravityKeyframes = <<>> /\ hooked = FALSE
  /\ frameIndex = 1 /\ gev = [op |-> "none"]
  /\ allRiders = <<>> /\ sel = [helper |-> "none"]
  /\ cache = NoCache /\ counter = 0
  /\ memo = [op |-> "none", observed |-> -1, scannedNow |-> {}]
  /\ lib = "RiderManager" /\ heap = <<>> /\ made = [op |-> "none"]
  /\ NoLoading
  /\ gridState = [GridDefaults EXCEPT !.active = TRUE]
  /\ committedRiders = <<HostRider>>
  /\ preview = GridRecompute(gridState, committedRiders)

NextGrid ==
  \/ \E k \in GridKeys : \E v \in GridValues(k) : GridChange(k, v)
  \/ \E n \in 0 .. MaxRiders : GridHostRiders(n)

SpecGrid == InitGrid /\ [][NextGrid]_vars


(* ===================== activation: the scripts' init blocks ============= *)
\* the mod scripts with the init block
Scripts == {"Metadata", "Template", "Skew", "Sync"}

\* variant: the previously registered callback is dropped
ReadyCallback_NoPrev(prevCb, m) == <<<<>>, m>>

\* () => { if (prevCb) prevCb(); main() }: the closure over prevCb and the
\* script's own main
ReadyCallback(prevCb, m) == <<prevCb, m>>

RECURSIVE CallReady(_)
\* the main() calls a call of the closure makes, in order
CallReady(cb) ==
  IF cb = <<>> THEN <<>> ELSE Append(CallReady(cb[1]), cb[2])

\* a script's init block: main() at once if window.registerCustomSetting
\* exists, else install window.onCustomToolsApiReady behind the previous one
LoadScript(m) ==
  /\ \A k \in 1 .. Len(loaded) : loaded[k] # m
  /\ loaded' = Append(loaded, m)
  /\ IF registerCustomSetting
       THEN /\ mains' = Append(mains, m)
            /\ UNCHANGED onCustomToolsApiReady
       ELSE /\ onCustomToolsApiReady' = ReadyCallback(onCustomToolsApiReady, m)
            /\ UNCHANGED mains
  /\ UNCHANGED <<registerCustomSetting, modVars, gravVars, selVars, memoVars,
                 riderVars, gridState, committedRiders, preview, hostVars>>

\* host: the custom tools API becomes available and the ready hook is fired
HostReady ==
  /\ ~registerCustomSetting
  /\ registerCustomSetting' = TRUE
  /\ mains' = mains \o CallReady(onCustomToolsApiReady)
  /\ UNCHANGED <<onCustomToolsApiReady, loaded, modVars, gravVars, selVars,
                 memoVars, riderVars, gridState, committedRiders, preview,
                 hostVars>>

InitLoad ==
  /\ Constructed("Template")
  /\ api = "mods" /\ items = <<>> /\ allGravityKeyframes = <<>> /\ hooked = FALSE
  /\ frameIndex = 1 /\ gev = [op |-> "none"]
  /\ allRiders = <<>> /\ sel = [helper |-> "none"]
  /\ cache = NoCache /\ counter = 0
  /\ memo = [op |-> "none", observed |-> -1, scannedNow |-> {}]
  /\ lib = "RiderManager" /\ heap = <<>> /\ made = [op |-> "none"]
  /\ gridState = GridDefaults /\ committedRiders = <<>> /\ preview = <<>>
  /\ registerCustomSetting = FALSE
  /\ onCustomToolsApiReady = <<>>
  /\ loaded = <<>>
  /\ mains = <<>>
  /\ NoHost

NextLoad ==
  \/ \E m \in Scripts : LoadScript(m)
  \/ HostReady

SpecLoad == InitLoad /\ [][NextLoad]_vars


(* ============================== Gravity API ============================= *)
\* the three scripts that define GravityAPI; they differ in the keyframe
\* functions and in what the scan does when nothing matched
Apis == {"mods", "part_001", "part_002"}

\* null / undefined parameters are <<>>, a given number n is <<n>>
Null == <<>>

\* gravity values are in thousandths: 0.175 is 175
Gravity(x, y, d) == [x |-> x, y |-> y, default |-> d, undefined |-> FALSE]

Undefined == [x |-> 0, y |-> 0, default |-> FALSE, undefined |-> TRUE]

DEFAULT_GRAVITY == Gravity(0, 175, FALSE)

FRAMES_PER_SECOND == 40

timestampToFrames(ts) ==
  ts[1] * FRAMES_PER_SECOND * 60 + ts[2] * FRAMES_PER_SECOND + ts[3]

(* ---------------------- effects of the keyframes ------------------------ *)
\* an effect function, by what it does with its keyframeContext
NoEffect ==
  [e |-> "none", x |-> 0, y |-> 0, default |-> FALSE, normalX |-> Null,
   normalY |-> Null, axisX |-> Null, axisY |-> Null, maxForce |-> 0]

Keyframe(t, cp, effect) == [t |-> t, cps |-> cp, fn |-> effect]

\* mods: ({x, y}); part_001, part_002: ({x, y, __default: true})
setGravity(a, k, t, cp) ==
  <<Keyframe(t, cp, [NoEffect EXCEPT !.e = "value", !.x = k.x, !.y = k.y,
                                     !.default = (a # "mods")])>>

\* the restoring keyframe: mods returns normalGravity as given; the others
\* return normalX ?? keyframeContext.lastDefaultGravity.x (and y)
Restore(a, k) ==
  [NoEffect EXCEPT !.e = IF a = "mods" THEN "normal" ELSE "restore",
                   !.normalX = k.normalX, !.normalY = k.normalY]

pulseGravity(a, k, t, cp) ==
  <<Keyframe(t, cp, [NoEffect EXCEPT !.e = "value", !.x = k.x, !.y = k.y]),
    Keyframe(t + k.duration + 1, cp, Restore(a, k))>>

\* variant: the baseline is restored one frame after the displacement, with
\* no inverse correction in between
teleport_NoInverse(a, k, t, cp) ==
  <<Keyframe(t, cp, [NoEffect EXCEPT !.e = "value", !.x = k.x, !.y = k.y]),
    Keyframe(t + 1, cp, Restore(a, k))>>

\* mods: normalGravity defaults to {x: 0, y: 0.175}
teleport(a, k, t, cp) ==
  LET n == IF a = "mods" /\ k.normalX = Null
             THEN [k EXCEPT !.normalX = <<0>>, !.normalY = <<175>>]
             ELSE k
  IN <<Keyframe(t, cp, [NoEffect EXCEPT !.e = "value", !.x = k.x, !.y = k.y]),
       Keyframe(t + 1, cp, [NoEffect EXCEPT !.e = "value", !.x = 0 - k.x, !.y = 0 - k.y]),
       Keyframe(t + 2, cp, Restore(a, n))>>

\* duration keyframes that push towards the axis, then one that hands back:
\* ctx.lastGravity (mods, part_002) or lastDefaultGravity ?? (0, 0.175) (part_001)
lockToAxisFn(a, k, startFrame, contactPoints) ==
  [i \in 1 .. k.duration |->
     Keyframe(startFrame + (i - 1), contactPoints,
              [NoEffect EXCEPT !.e = "lock", !.axisX = k.axisX, !.axisY = k.axisY,
                               !.maxForce = k.maxForce])]
  \o <<Keyframe(startFrame + k.duration, contactPoints,
                [NoEffect EXCEPT !.e = IF a = "part_001" THEN "lastDefault" ELSE "last"])>>

KeyframeFn(a, k, t, cp) ==
  CASE k.fn = "setGravity" -> setGravity(a, k, t, cp)
    [] k.fn = "pulseGravity" -> pulseGravity(a, k, t, cp)
    [] k.fn = "teleport" -> teleport(a, k, t, cp)
    [] k.fn = "lockToAxis" -> lockToAxisFn(a, k, t, cp)
    [] k.fn = "malformed" -> <<[t |-> t, cps |-> cp]>>

Sign(n) == IF n > 0 THEN 1 ELSE IF n < 0 THEN -1 ELSE 0

Abs(n) == IF n < 0 THEN 0 - n ELSE n

Clamp(v, m) == Max(0 - m, Min(m, v))

\* force along one axis; axis null: 0. mods, part_002: the displacement,
\* clamped; part_001: spring towards the axis plus damping, clamped
LockForce(a, axis, maxForce, pos, vel) ==
  IF axis = Null THEN 0
  ELSE LET d == axis[1] - pos
       IN IF a = "part_001"
            THEN Clamp((maxForce * Sign(d) * Min(Abs(d), 1000)) \div 1000
                         - ((maxForce * vel) \div 2000), maxForce)
            ELSE Clamp(d, maxForce)

Returns(g) == [threw |-> FALSE, value |-> g]

Throws == [threw |-> TRUE, value |-> Undefined]

\* gravityFn(keyframeContext)
ApplyEffect(a, fn, ctx) ==
  CASE fn.e = "value" -> Returns(Gravity(fn.x, fn.y, fn.default))
    [] fn.e = "normal" ->
         IF fn.normalX = Null THEN Returns(Undefined)
         ELSE Returns(Gravity(fn.normalX[1], fn.normalY[1], FALSE))
    [] fn.e = "restore" ->
         IF (fn.normalX = Null \/ fn.normalY = Null) /\ ctx.lastDefaultGravity = Null
           THEN Throws
           ELSE Returns(Gravity(
                  IF fn.normalX # Null THEN fn.normalX[1] ELSE ctx.lastDefaultGravity[1].x,
                  IF fn.normalY # Null THEN fn.normalY[1] ELSE ctx.lastDefaultGravity[1].y,
                  FALSE))
    [] fn.e = "lock" ->
         Returns(Gravity(
           LockForce(a, fn.axisX, fn.maxForce, ctx.contactPointData.pos.x,
                     ctx.contactPointData.vel.x),
           LockForce(a, fn.axisY, fn.maxForce, ctx.contactPointData.pos.y,
                     ctx.contactPointData.vel.y),
           FALSE))
    [] fn.e = "last" -> Returns(ctx.lastGravity)
    [] fn.e = "lastDefault" ->
         Returns(Gravity(
           IF ctx.lastDefaultGravity # Null THEN ctx.lastDefaultGravity[1].x ELSE 0,
           IF ctx.lastDefaultGravity # Null THEN ctx.lastDefaultGravity[1].y ELSE 175,
           FALSE))

(* ------------------------------ the table ------------------------------- *)
RECURSIVE Flat(_)
\* Array.prototype.flat(), one level
Flat(ss) == IF ss = <<>> THEN <<>> ELSE Head(ss) \o Flat(Tail(ss))

\* variant: every group is delayed by the same number of frames
Interval_SameForAll(frames, i) == frames

\* Intervals.stagger(frames): (i) => i * frames; Intervals.simultaneous is 0
Interval(frames, i) == i * frames

applyGravity(a, baseTimestamp, contactPoints, keyframeFn, intervalFn) ==
  LET timeAsFrames == timestampToFrames(baseTimestamp)
      numGroups == (Len(contactPoints) + (groupSize - 1)) \div groupSize
      needsGrouping == \E i \in 0 .. (numGroups - 1) : Interval(intervalFn, i) # 0
  IN IF ~needsGrouping
       THEN KeyframeFn(a, keyframeFn, timeAsFrames, contactPoints)
       ELSE Flat([g \in 1 .. numGroups |->
                    KeyframeFn(a, keyframeFn, timeAsFrames + Interval(intervalFn, g - 1),
                               SubSeq(contactPoints, (g - 1) * groupSize + 1,
                                      Min(g * groupSize, Len(contactPoints))))])

\* validate(keyframes): every entry an array of length 3 (mods: 3 or 4); an
\* entry's length is the number of its components
validate(a, keyframes) ==
  \A i \in 1 .. Len(keyframes) :
    \/ Cardinality(DOMAIN keyframes[i]) = 3
    \/ a = "mods" /\ Cardinality(DOMAIN keyframes[i]) = 4

\* applyGravity with its argument checks: throws for contactPoints or
\* baseTimestamp that is not an array and for a keyframe function's output
\* that does not validate
applyGravityChecked(a, baseTimestamp, contactPoints, keyframeFn, intervalFn) ==
  IF ~contactPoints.isArray THEN [thrown |-> TRUE, out |-> <<>>]
  ELSE IF ~baseTimestamp.isArray THEN [thrown |-> TRUE, out |-> <<>>]
  ELSE LET keyframes == applyGravity(a, baseTimestamp.value, contactPoints.value,
                                     keyframeFn, intervalFn)
       IN IF ~validate(a, keyframes) THEN [thrown |-> TRUE, out |-> <<>>]
          ELSE [thrown |-> FALSE, out |-> keyframes]

\* variant: the flattened keyframes are installed in the order they were given
SortByTime_Unsorted(kfs) == kfs

RECURSIVE SortByTime(_)
\* .sort((a, b) => a[0] - b[0]): ascending by time, equal times keep their order
SortByTime(kfs) ==
  IF kfs = <<>> THEN <<>>
  ELSE LET sorted == SortByTime(SubSeq(kfs, 1, Len(kfs) - 1))
           kf == kfs[Len(kfs)]
           n == Cardinality({i \in 1 .. Len(sorted) : sorted[i].t <= kf.t})
       IN SubSeq(sorted, 1, n) \o <<kf>> \o SubSeq(sorted, n + 1, Len(sorted))

(* ------------------------------ evaluation ------------------------------ *)
Includes(array, x) == \E i \in 1 .. Len(array) : array[i] = x

\* {...context, frameIndex, globalCpIndex, lastGravity, lastDefaultGravity}
KeyframeContext(q, lastGravity, lastDefaultGravity) ==
  [contactPoint |-> q.contactPoint, contactPointData |-> q.contactPointData,
   frameIndex |-> q.frameIndex, globalCpIndex |-> q.globalCpIndex,
   lastGravity |-> lastGravity, lastDefaultGravity |-> lastDefaultGravity]

RECURSIVE Scan(_, _, _, _, _)
\* the for loop over the table from position k on; acc: lastGravity,
\* lastDefaultGravity, found, and trace, the applications made so far
Scan(a, keyframes, k, q, acc) ==
  IF k > Len(keyframes) THEN acc
  ELSE LET kf == keyframes[k]
       IN IF kf.t > q.frameIndex THEN acc
          ELSE IF ~Includes(kf.cps, q.globalCpIndex) THEN Scan(a, keyframes, k + 1, q, acc)
          ELSE LET ctx == KeyframeContext(q, acc.lastGravity, acc.lastDefaultGravity)
                   r == ApplyEffect(a, kf.fn, ctx)
                   applied == Append(acc.trace, [k |-> k, lastGravity |-> ctx.lastGravity,
                                                 threw |-> r.threw, out |-> r.value])
               IN IF r.threw
                    THEN [acc EXCEPT !.threw = TRUE, !.trace = applied]
                    ELSE Scan(a, keyframes, k + 1, q,
                              [acc EXCEPT
                                 !.lastGravity = r.value,
                                 !.lastDefaultGravity =
                                    IF ~r.value.undefined /\ r.value.default
                                      THEN <<[x |-> r.value.x, y |-> r.value.y]>>
                                      ELSE @,
                                 !.found = TRUE,
                                 !.trace = applied])

\* mods returns DEFAULT_GRAVITY when nothing matched; part_001 and part_002
\* throw an Error before their return statement
getGravityForContactPoint(a, keyframes, q) ==
  LET r == Scan(a, keyframes, 1, q,
                [lastGravity |-> Undefined, lastDefaultGravity |-> Null,
                 found |-> FALSE, threw |-> FALSE, trace |-> <<>>])
  IN IF r.threw
       THEN [thrown |-> "TypeError", result |-> Undefined, trace |-> r.trace]
       ELSE IF ~r.found
         THEN IF a = "mods"
                THEN [thrown |-> "none", result |-> DEFAULT_GRAVITY, trace |-> r.trace]
                ELSE [thrown |-> "Error", result |-> Undefined, trace |-> r.trace]
         ELSE [thrown |-> "none", result |-> r.lastGravity, trace |-> r.trace]

(* ------------------------- the user's script ---------------------------- *)
NoArgs ==
  [fn |-> "none", x |-> 0, y |-> 0, duration |-> 0, normalX |-> Null,
   normalY |-> Null, axisX |-> Null, axisY |-> Null, maxForce |-> 0]

Item(timestamp, contactPoints, keyframeFn, intervalFn) ==
  [timestamp |-> timestamp, contactPoints |-> contactPoints,
   keyframeFn |-> keyframeFn, intervalFn |-> intervalFn]

\* [timestamp, contactPoints, keyframeFn, intervalFn?] entries a script uses
ItemChoices ==
  { Item(<<0, 0, 0>>, toContactPoints(<<0>>, allPoints),
         [NoArgs EXCEPT !.fn = "setGravity", !.y = 100], 0),
    Item(<<0, 0, 2>>, toContactPoints(<<0>>, allPoints),
         [NoArgs EXCEPT !.fn = "setGravity", !.x = 50], 0),
    Item(<<0, 0, 1>>, toContactPoints(<<0>>, <<0>>),
         [NoArgs EXCEPT !.fn = "pulseGravity", !.x = 7, !.y = 7, !.duration = 1], 0),
    Item(<<0, 0, 0>>, toContactPoints(<<0, 1>>, allPoints),
         [NoArgs EXCEPT !.fn = "teleport", !.x = 3, !.y = -3], 1),
    Item(<<0, 0, 1>>, toContactPoints(<<0>>, allPoints),
         [NoArgs EXCEPT !.fn = "lockToAxis", !.axisX = <<0>>, !.maxForce = 2000,
                        !.duration = 1], 0),
    Item(<<0, 0, 3>>, toContactPoints(<<1>>, <<0>>),
         [NoArgs EXCEPT !.fn = "setGravity", !.y = 100], 0),
    Item(<<0, 0, 1>>, toContactPoints(<<0>>, <<0>>),
         [NoArgs EXCEPT !.fn = "teleport", !.x = 3, !.y = -3], 0),
    Item(<<0, 0, 1>>, toContactPoints(<<0>>, <<0>>),
         [NoArgs EXCEPT !.fn = "teleport", !.x = 3, !.y = -3,
                        !.normalX = <<20>>, !.normalY = <<30>>], 0),
    Item(<<0, 0, 1>>, toContactPoints(<<0, 1>>, allPoints),
         [NoArgs EXCEPT !.fn = "setGravity", !.x = 50], 2) }

ItemLists == UNION {[1 .. n -> ItemChoices] : n \in 0 .. MaxItems}

\* host: contactPointData of the read point in the previous frame
DataChoices ==
  { [pos |-> [x |-> 0, y |-> 0], vel |-> [x |-> 0, y |-> 0]],
    [pos |-> [x |-> 5000, y |-> 0], vel |-> [x |-> 1000, y |-> 0]] }

\* the local points the engine's reads are sampled at: peg and last scarf point
ReadPoints == {0, 16}

(* ------------------------------- actions -------------------------------- *)
\* items are processed and the flattened keyframes sorted by time; the
\* computed frames are cut back to one and the getter is (re)installed
\* (the part of the call that does not touch the player)
InstallKeyframes ==
  /\ LET processedKeyframes ==
           [n \in 1 .. Len(items) |->
              applyGravity(api, items[n].timestamp, items[n].contactPoints,
                           items[n].keyframeFn, items[n].intervalFn)]
     IN allGravityKeyframes' = SortByTime(Flat(processedKeyframes))
  /\ frameIndex' = 1
  /\ hooked' = TRUE
  /\ gev' = [op |-> "setGravityKeyframes"]
  /\ followerFrames' = 0
  /\ UNCHANGED <<api, items, modVars, selVars, memoVars, riderVars, gridVars, loadVars,
                 readPos>>

\* setGravityKeyframes(items): the player index is read, the player is sent to
\* index 0 and a requestAnimationFrame callback is scheduled that dispatches
\* the index that was read
SetGravityKeyframes ==
  /\ Len(pending) < MaxPending
  /\ InstallKeyframes
  /\ LET currentIndex == playerIndex
     IN /\ playerIndex' = 0
        /\ pending' = Append(pending, currentIndex)

\* host: the browser's next animation frame runs the waiting callbacks in the
\* order they were requested, each dispatching SET_PLAYER_INDEX
RunAnimationFrame ==
  /\ pending # <<>>
  /\ playerIndex' = pending[Len(pending)]
  /\ pending' = <<>>
  /\ UNCHANGED <<modVars, gravVars, selVars, memoVars, riderVars, gridVars, loadVars,
                 readPos, followerFrames>>

\* setGravityKeyframes(items) called while no callback is waiting, and the
\* animation frame that follows it: the callback has put the player back
SetGravityKeyframesAndFrame ==
  /\ pending = <<>>
  /\ InstallKeyframes
  /\ UNCHANGED <<playerIndex, pending>>

\* host: the engine computes one more frame
HostComputeFrame ==
  /\ frameIndex < MaxFrame
  /\ frameIndex' = frameIndex + 1
  /\ UNCHANGED <<api, items, allGravityKeyframes, hooked, gev, modVars, selVars, memoVars, riderVars, gridVars, loadVars,
                 hostVars>>

\* the engine reads $ENGINE_PARAMS.gravity: the read is attributed to a rider
\* and a local point, and the table is scanned for that global index
\* (part_001 answers scarf points with DEFAULT_GRAVITY without a scan; its
\* per-frame result cache and the read counter are not part of this state:
\* the read position is an input and every read of a body point scans)
\* with no rider in the scene the read returns DEFAULT_GRAVITY at once
GetterRead(globalIteration, data) ==
  /\ hooked
  /\ IF Len(allRiders) = 0
       THEN gev' = [op |-> "getGravity", frameIndex |-> frameIndex,
                    globalCpIndex |-> -1, riderIndex |-> -1, contactPoint |-> -1,
                    scanned |-> FALSE, thrown |-> "none",
                    result |-> DEFAULT_GRAVITY, trace |-> <<>>]
       ELSE
       LET numRiders == Len(allRiders)
         riderOfRead == currentRiderIndex(globalIteration, numRiders)
         pointOfRead == currentContactPoint(globalIteration)
         globalCpIndex == GlobalCpIndex(riderOfRead, pointOfRead)
         q == [frameIndex |-> frameIndex, globalCpIndex |-> globalCpIndex,
               riderIndex |-> RiderIndexOf(globalCpIndex),
               contactPoint |-> ContactPointOf(globalCpIndex),
               contactPointData |-> data]
         scanned == ~(api = "part_001" /\ pointOfRead > 9)
         r == IF scanned
                THEN getGravityForContactPoint(api, allGravityKeyframes, q)
                ELSE [thrown |-> "none", result |-> DEFAULT_GRAVITY, trace |-> <<>>]
     IN gev' = [op |-> "getGravity", frameIndex |-> q.frameIndex,
                globalCpIndex |-> q.globalCpIndex, riderIndex |-> q.riderIndex,
                contactPoint |-> q.contactPoint, scanned |-> scanned,
                thrown |-> r.thrown, result |-> r.result, trace |-> r.trace]
  /\ UNCHANGED <<api, items, allGravityKeyframes, hooked, frameIndex, modVars, selVars,
                 cache, memo, riderVars, gridVars, loadVars, playerIndex, pending, followerFrames>>

\* a read whose position in the engine's sequence of reads is given
GetGravity(globalIteration, data) ==
  /\ GetterRead(globalIteration, data)
  /\ UNCHANGED <<counter, readPos>>

InitGravity ==
  /\ Constructed("Template")
  /\ api \in Apis
  /\ items \in ItemLists
  /\ allGravityKeyframes = <<>>
  /\ hooked = FALSE
  /\ frameIndex = 1
  /\ gev = [op |-> "none"]
  /\ allRiders = <<"a", "b">>
  /\ sel = [helper |-> "none"]
  /\ NoMemo

NextGravity ==
  \/ SetGravityKeyframesAndFrame
  \/ HostComputeFrame
  \/ \E i \in 0 .. (Len(allRiders) - 1) : \E p \in ReadPoints : \E data \in DataChoices :
       GetGravity(i * iterationsPerRider + p + 1, data)

SpecGravity == InitGravity /\ [][NextGravity]_vars

(* --------------- the helpers called with valid and invalid input -------- *)
\* applyGravity(baseTimestamp, contactPoints, keyframeFn, intervalFn) called
\* by the user's script
ApplyGravity(baseTimestamp, contactPoints, keyframeFn, intervalFn) ==
  /\ LET r == applyGravityChecked(api, baseTimestamp, contactPoints, keyframeFn,
                                  intervalFn)
     IN gev' = [op |-> "applyGravity", baseTimestamp |-> baseTimestamp,
                contactPoints |-> contactPoints, keyframeFn |-> keyframeFn.fn,
                thrown |-> r.thrown, out |-> r.out]
  /\ UNCHANGED <<api, items, allGravityKeyframes, hooked, frameIndex, modVars,
                 selVars, memoVars, riderVars, gridVars, loadVars,
                 hostVars>>

\* keyframe functions of the calls: setGravity and one whose output entries
\* are [time, contactPoints] pairs
InputKeyframeFns ==
  {[NoArgs EXCEPT !.fn = "setGravity", !.y = 100], [NoArgs EXCEPT !.fn = "malformed"]}

InitInput ==
  /\ Constructed("Template")
  /\ api \in Apis
  /\ items = <<>> /\ allGravityKeyframes = <<>> /\ hooked = FALSE
  /\ frameIndex = 1 /\ gev = [op |-> "none"]
  /\ allRiders = <<"a", "b">> /\ sel = [helper |-> "none"]
  /\ cache = NoCache /\ counter = 0
  /\ memo = [op |-> "none", observed |-> -1, scannedNow |-> {}]
  /\ NoGrid
  /\ lib \in Libs
  /\ heap = BaseHeap(lib, 0)
  /\ made = [op |-> "none"]

NextInput ==
  \/ \E g \in GroupArgs : MakeRider(g)
  \/ \E g \in {Missing, {"g"}} : RepeatRider(MaxRepeat - 1, g, [startPosition |-> "none", groups |-> "none"])
  \/ \E g \in {Missing, {"g"}} : ChainRepeatRider(g, MaxRepeat - 1, FALSE)
  \/ \E h \in {"only", "exclude"} : \E pts \in {Arr(sledPoints), NotArray} :
       OnlyOrExclude(h, <<0, 1>>, pts)
  \/ \E ts \in {Arr(<<0, 0, 1>>), NotArray} :
       \E cps \in {Arr(toContactPoints(<<0, 1>>, allPoints)), NotArray} :
         \E k \in InputKeyframeFns : \E iv \in {0, 1} : ApplyGravity(ts, cps, k, iv)

SpecInput == InitInput /\ [][NextInput]_vars

(* ------------------ the memoizing getter (part_001) --------------------- *)
\* cache.gravityResults[globalCpIndex] = result
Store(results, globalCpIndex, result) ==
  [c \in (DOMAIN results) \cup {globalCpIndex} |->
     IF c = globalCpIndex THEN result ELSE results[c]]

\* the scripts the getter is exercised with: one setGravity item for all the
\* points of the first rider, due from frame 0 or only from frame 2
MemoItemLists ==
  {its \in ItemLists : /\ Len(its) = 1
                       /\ its[1].keyframeFn.fn = "setGravity"
                       /\ Len(its[1].contactPoints) = 17}

\* one read of $ENGINE_PARAMS.gravity through the getter of part_001: the
\* cache is reset if the frame index is not the cached one, the counter
\* attributes the read to a rider and a point, scarf points get
\* DEFAULT_GRAVITY, a cached result is returned as it is, and otherwise the
\* table is scanned and the result stored (not if the scan throws)
MemoRead(data) ==
  /\ hooked
  /\ api = "part_001"
  /\ counter < MaxReads
  /\ LET reset == cache.frameIndex # frameIndex
         cache1 == IF reset THEN [frameIndex |-> frameIndex, gravityResults |-> <<>>]
                   ELSE cache
         numRiders == Len(allRiders)
         globalIteration == counter + 1
         riderOfRead == currentRiderIndex(globalIteration, numRiders)
         pointOfRead == currentContactPoint(globalIteration)
         globalCpIndex == GlobalCpIndex(riderOfRead, pointOfRead)
         q == [frameIndex |-> frameIndex, globalCpIndex |-> globalCpIndex,
               riderIndex |-> RiderIndexOf(globalCpIndex),
               contactPoint |-> ContactPointOf(globalCpIndex),
               contactPointData |-> data]
         hit == globalCpIndex \in DOMAIN cache1.gravityResults
         r == getGravityForContactPoint(api, allGravityKeyframes, q)
         before == IF memo.observed # frameIndex THEN {} ELSE memo.scannedNow
     IN IF numRiders = 0
          THEN /\ cache' = cache1
               /\ counter' = counter
               /\ memo' = [op |-> "get", observed |-> frameIndex, scannedNow |-> before,
                           globalCpIndex |-> -1, reset |-> reset, hit |-> FALSE,
                           scanned |-> FALSE, rescanned |-> FALSE, thrown |-> "none",
                           result |-> DEFAULT_GRAVITY, fresh |-> DEFAULT_GRAVITY]
          ELSE IF pointOfRead > 9
          THEN /\ cache' = cache1
               /\ counter' = globalIteration
               /\ memo' = [op |-> "get", observed |-> frameIndex, scannedNow |-> before,
                           globalCpIndex |-> globalCpIndex, reset |-> reset, hit |-> FALSE,
                           scanned |-> FALSE, rescanned |-> FALSE, thrown |-> "none",
                           result |-> DEFAULT_GRAVITY, fresh |-> DEFAULT_GRAVITY]
          ELSE IF hit
          THEN /\ cache' = cache1
               /\ counter' = globalIteration
               /\ memo' = [op |-> "get", observed |-> frameIndex, scannedNow |-> before,
                           globalCpIndex |-> globalCpIndex, reset |-> reset, hit |-> TRUE,
                           scanned |-> FALSE, rescanned |-> FALSE, thrown |-> "none",
                           result |-> cache1.gravityResults[globalCpIndex],
                           fresh |-> r.result]
          ELSE /\ cache' = IF r.thrown = "none"
                             THEN [cache1 EXCEPT !.gravityResults =
                                      Store(@, globalCpIndex, r.result)]
                             ELSE cache1
               /\ counter' = globalIteration
               /\ memo' = [op |-> "get", observed |-> frameIndex,
                           scannedNow |-> before \cup {globalCpIndex},
                           globalCpIndex |-> globalCpIndex, reset |-> reset, hit |-> FALSE,
                           scanned |-> TRUE, rescanned |-> globalCpIndex \in before,
                           thrown |-> r.thrown, result |-> r.result, fresh |-> r.result]
  /\ UNCHANGED <<modVars, gravVars, selVars, riderVars, gridVars, loadVars,
                 playerIndex, pending, followerFrames>>

\* a read at any moment of the engine's work
MemoGetGravity(data) ==
  /\ MemoRead(data)
  /\ UNCHANGED readPos

\* part_001 is loaded and the scene has one rider
InitMemo ==
  /\ Constructed("Template")
  /\ api = "part_001"
  /\ items \in MemoItemLists
  /\ allGravityKeyframes = <<>>
  /\ hooked = FALSE
  /\ frameIndex = 1
  /\ gev = [op |-> "none"]
  /\ allRiders = <<"a">>
  /\ sel = [helper |-> "none"]
  /\ NoMemo

\* the user's script is edited once, after it has been installed: the next
\* setGravityKeyframes call gets another items argument
EditScript(its) ==
  /\ hooked
  /\ allGravityKeyframes = SortByTime(Flat([n \in 1 .. Len(items) |->
         applyGravity(api, items[n].timestamp, items[n].contactPoints,
                      items[n].keyframeFn, items[n].intervalFn)]))
  /\ its[1].timestamp[3] > items[1].timestamp[3]
  /\ items' = its
  /\ UNCHANGED <<api, allGravityKeyframes, hooked, frameIndex, gev, modVars,
                 selVars, memoVars, riderVars, gridVars, loadVars,
                 hostVars>>

NextMemo ==
  \/ SetGravityKeyframesAndFrame
  \/ HostComputeFrame
  \/ \E data \in DataChoices : MemoGetGravity(data)
  \/ \E its \in MemoItemLists : EditScript(its)

SpecMemo == InitMemo /\ [][NextMemo]_vars

(* --------------- the engine's reads, frame by frame --------------------- *)
\* host: the engine reads $ENGINE_PARAMS.gravity for the next contact point of
\* the frame it is computing, rider by rider; every script counts the reads
\* in window.__gravityIterationCounter
HostRead(data) ==
  /\ counter < MaxReads
  /\ Len(allRiders) = 0 \/ readPos < iterationsPerRider * Len(allRiders)
  /\ IF api = "part_001"
       THEN MemoRead(data)
       ELSE /\ GetterRead(counter + 1, data)
            /\ counter' = IF Len(allRiders) = 0 THEN counter ELSE counter + 1
  /\ readPos' = IF Len(allRiders) = 0 THEN readPos ELSE readPos + 1

\* host: every point of every rider has been read and the frame is stored
HostNextFrame ==
  /\ readPos = iterationsPerRider * Len(allRiders)
  /\ frameIndex < MaxFrame
  /\ frameIndex' = frameIndex + 1
  /\ readPos' = 0
  /\ UNCHANGED <<api, items, allGravityKeyframes, hooked, gev, modVars, selVars,
                 memoVars, riderVars, gridVars, loadVars, playerIndex, pending, followerFrames>>

\* the scene's rider lists: no rider, one, two
RiderLists == {<<>>, <<"a">>, <<"a", "b">>}

\* one of the scripts is loaded, the scene has its one rider, the engine is
\* between frames and the player at index 0
InitHost ==
  /\ Constructed("Template")
  /\ api \in Apis
  /\ items \in MemoItemLists
  /\ allGravityKeyframes = <<>>
  /\ hooked = FALSE
  /\ frameIndex = 1
  /\ gev = [op |-> "none"]
  /\ allRiders = <<"a">>
  /\ sel = [helper |-> "none"]
  /\ NoMemo

\* riders are added or removed and the script is run between frames
NextReads ==
  \/ readPos = 0 /\ SetGravityKeyframesAndFrame
  \/ \E data \in DataChoices : HostRead(data)
  \/ HostNextFrame
  \/ \E rs \in RiderLists : readPos = 0 /\ SceneSetRiders(rs)

SpecReads == InitHost /\ [][NextReads]_vars

(* ------------------- the player and the deferred restore ---------------- *)
\* host: the user moves the player while no callback is waiting
HostSeek(i) ==
  /\ pending = <<>>
  /\ playerIndex' = i
  /\ UNCHANGED <<modVars, gravVars, selVars, memoVars, riderVars, gridVars, loadVars,
                 readPos, pending, followerFrames>>

NextPlayer ==
  \/ SetGravityKeyframes
  \/ RunAnimationFrame
  \/ HostComputeFrame
  \/ \E i \in 0 .. MaxPlayerIndex : HostSeek(i)

SpecPlayer == InitHost /\ [][NextPlayer]_vars

(* --------------- setGravityKeyframes with items that may throw ---------- *)
\* items.map(...): every item is an array with an array timestamp and goes
\* through applyGravity; the first throw ends the call
ProcessItems(a, its) ==
  LET rs == [n \in 1 .. Len(its) |->
               applyGravityChecked(a, its[n].timestamp, its[n].contactPoints,
                                   its[n].keyframeFn, its[n].intervalFn)]
  IN IF \E n \in 1 .. Len(its) : rs[n].thrown
       THEN [thrown |-> TRUE, out |-> <<>>]
       ELSE [thrown |-> FALSE,
             out |-> SortByTime(Flat([n \in 1 .. Len(its) |-> rs[n].out]))]

\* the items of the calls: two that process, one whose contact points are not
\* an array, one whose keyframe function returns [time, contactPoints] pairs
CallItemChoices ==
  { Item(Arr(<<0, 0, 0>>), Arr(toContactPoints(<<0>>, allPoints)),
         [NoArgs EXCEPT !.fn = "setGravity", !.y = 100], 0),
    Item(Arr(<<0, 0, 2>>), Arr(toContactPoints(<<0>>, allPoints)),
         [NoArgs EXCEPT !.fn = "setGravity", !.x = 50], 0),
    Item(Arr(<<0, 0, 1>>), NotArray,
         [NoArgs EXCEPT !.fn = "setGravity", !.y = 100], 0),
    Item(Arr(<<0, 0, 1>>), Arr(toContactPoints(<<0>>, allPoints)),
         [NoArgs EXCEPT !.fn = "malformed"], 0) }

CallItemLists == UNION {[1 .. n -> CallItemChoices] : n \in 1 .. MaxItems}

\* setGravityKeyframes(its): part_001 clears the caches, sends the player to
\* index 0 and schedules the restoring callback before it processes the items;
\* part_002 and mods process the items first. The table is assigned and the
\* getter installed only after the items have been processed.
SetGravityKeyframesCall(its) ==
  /\ Len(pending) < MaxPending
  /\ LET r == ProcessItems(api, its)
         cleared == api = "part_001" \/ ~r.thrown
     IN /\ IF cleared
             THEN /\ followerFrames' = 0
                  /\ frameIndex' = 1
                  /\ playerIndex' = 0
                  /\ pending' = Append(pending, playerIndex)
             ELSE UNCHANGED <<followerFrames, frameIndex, playerIndex, pending>>
        /\ IF r.thrown
             THEN UNCHANGED <<allGravityKeyframes, hooked>>
             ELSE /\ allGravityKeyframes' = r.out
                  /\ hooked' = TRUE
        /\ gev' = [op |-> "setGravityKeyframes", thrown |-> r.thrown]
  /\ UNCHANGED <<api, items, modVars, selVars, memoVars, riderVars, gridVars, loadVars,
                 readPos>>

\* host: the camera follower computes one more frame during playback
HostFollow ==
  /\ followerFrames < MaxFrame
  /\ followerFrames' = followerFrames + 1
  /\ UNCHANGED <<modVars, gravVars, selVars, memoVars, riderVars, gridVars, loadVars,
                 readPos, playerIndex, pending>>

\* one of the scripts is loaded and setGravityKeyframes has not been called
InitKeyframes ==
  /\ Constructed("Template")
  /\ api \in Apis
  /\ items = <<>>
  /\ allGravityKeyframes = <<>>
  /\ hooked = FALSE
  /\ frameIndex = 1
  /\ gev = [op |-> "none"]
  /\ allRiders = <<"a">>
  /\ sel = [helper |-> "none"]
  /\ NoMemo

NextKeyframes ==
  \/ \E its \in CallItemLists : SetGravityKeyframesCall(its)
  \/ RunAnimationFrame
  \/ HostComputeFrame
  \/ HostFollow
  \/ \E i \in 0 .. MaxPlayerIndex : HostSeek(i)

SpecKeyframes == InitKeyframes /\ [][NextKeyframes]_vars


(* ======================== properties: Gravity API ======================= *)
\* positions of the table's keyframes that are due at frame f and list point cp
Matching(keyframes, f, cp) ==
  {k \in 1 .. Len(keyframes) : keyframes[k].t <= f /\ Includes(keyframes[k].cps, cp)}

\* a read that scanned the installed table
Scanned == gev.op = "getGravity" /\ gev.scanned

C8_NoMatchYieldsDefault ==
  (Scanned /\ Matching(allGravityKeyframes, gev.frameIndex, gev.globalCpIndex) = {}) =>
    /\ gev.thrown = "none"
    /\ gev.result = DEFAULT_GRAVITY

\* C9: one scan applies every due keyframe that lists the point exactly once,
\* in table order, and no other; each application receives as lastGravity the
\* value the previous application returned, the first one undefined.
C9_EachMatchingAppliedInOrder ==
  Scanned =>
    LET M == Matching(allGravityKeyframes, gev.frameIndex, gev.globalCpIndex)
        n == Len(gev.trace)
    IN /\ n = Cardinality(M)
       /\ \A i \in 1 .. n : gev.trace[i].k \in M
       /\ \A i \in 1 .. (n - 1) : gev.trace[i].k < gev.trace[i + 1].k
       /\ \A i \in 1 .. n :
            gev.trace[i].lastGravity = IF i = 1 THEN Undefined ELSE gev.trace[i - 1].out

\* the script is the item i followed or preceded by the item j, nothing else
Script(i, j) == Len(items) = 2 /\ {i, j} = {1, 2}

\* the frame an item's effect starts at for the points it lists
StartFrame(it) == timestampToFrames(it.timestamp)

\* the read was attributed to a point both items of the script list
ReadOfBoth == Scanned /\ \A n \in 1 .. Len(items) :
                           Includes(items[n].contactPoints, gev.globalCpIndex)

\* C16: lockToAxis hands back the gravity that was in effect before it. With
\* a setGravity(G) item at a frame before s and a lockToAxis item at frame s
\* with duration d for the same points and nothing else in the script, a read
\* of such a point at any frame >= s + d returns G.
C16_LockReturnsToLastGravity ==
  \A i, j \in 1 .. 2 :
    (/\ Script(i, j)
     /\ ReadOfBoth
     /\ items[i].keyframeFn.fn = "setGravity"
     /\ items[j].keyframeFn.fn = "lockToAxis"
     /\ items[j].intervalFn = 0
     /\ StartFrame(items[i]) < StartFrame(items[j])
     /\ gev.frameIndex >= StartFrame(items[j]) + items[j].keyframeFn.duration)
    => /\ gev.thrown = "none"
       /\ gev.result.x = items[i].keyframeFn.x
       /\ gev.result.y = items[i].keyframeFn.y

\* C17: pulseGravity(x, y, duration) at frame t, after a setGravity(G) item at
\* an earlier frame for the same point and with no normal gravity given
\* (part_001, part_002): a read of the point returns (x, y) at the frames
\* t .. t + duration - 1 and G at every later frame.
C17_PulseLastsDuration ==
  \A i, j \in 1 .. 2 :
    (/\ api # "mods"
     /\ Script(i, j)
     /\ ReadOfBoth
     /\ items[i].keyframeFn.fn = "setGravity"
     /\ items[j].keyframeFn.fn = "pulseGravity"
     /\ items[j].keyframeFn.normalX = Null
     /\ items[j].intervalFn = 0
     /\ StartFrame(items[i]) < StartFrame(items[j])
     /\ gev.frameIndex >= StartFrame(items[j]))
    => LET k == items[j].keyframeFn
           G == items[i].keyframeFn
           pulsing == gev.frameIndex < StartFrame(items[j]) + k.duration
       IN /\ gev.thrown = "none"
          /\ gev.result.x = IF pulsing THEN k.x ELSE G.x
          /\ gev.result.y = IF pulsing THEN k.y ELSE G.y

\* the script is one teleport item with its normal gravity given, or a
\* setGravity item at an earlier frame and the teleport item j, both listing
\* the point read
C18Case(j) ==
  /\ j \in 1 .. Len(items)
  /\ ReadOfBoth
  /\ items[j].keyframeFn.fn = "teleport"
  /\ items[j].intervalFn = 0
  /\ gev.frameIndex >= StartFrame(items[j])
  /\ \/ Len(items) = 1 /\ items[j].keyframeFn.normalX # Null
     \/ /\ Len(items) = 2
        /\ items[3 - j].keyframeFn.fn = "setGravity"
        /\ StartFrame(items[3 - j]) < StartFrame(items[j])

\* the baseline a teleport item restores: the normal gravity given, else the
\* value of the setGravity item
C18Baseline(j) ==
  IF items[j].keyframeFn.normalX # Null
    THEN [x |-> items[j].keyframeFn.normalX[1], y |-> items[j].keyframeFn.normalY[1]]
    ELSE [x |-> items[3 - j].keyframeFn.x, y |-> items[3 - j].keyframeFn.y]

C18BaselineByVersion(j) ==
  IF items[j].keyframeFn.normalX = Null /\ api = "mods"
    THEN [x |-> 0, y |-> 175]
    ELSE C18Baseline(j)

RestoreFrame(it) ==
  StartFrame(it) + (IF it.keyframeFn.fn = "pulseGravity"
                      THEN it.keyframeFn.duration + 1 ELSE 2)

\* C19: a pulseGravity or teleport item without normal gravity, alone in the
\* script (no setGravity for the point): a read of a listed point at or after
\* the frame of the restoring keyframe returns the fallback (0, 0.175).
C19_FallbackGravity ==
  (/\ Len(items) = 1
   /\ ReadOfBoth
   /\ items[1].keyframeFn.fn \in {"pulseGravity", "teleport"}
   /\ items[1].keyframeFn.normalX = Null
   /\ items[1].intervalFn = 0
   /\ gev.frameIndex >= RestoreFrame(items[1]))
  => /\ gev.thrown = "none"
     /\ ~gev.result.undefined
     /\ gev.result.x = 0
     /\ gev.result.y = 175

\* the script is one item whose contact points are whole riders, seventeen
\* consecutive indices each, and the table is the one installed for it
C20Case ==
  /\ hooked
  /\ Len(items) = 1
  /\ LET cps == items[1].contactPoints
     IN /\ Len(cps) > 0
        /\ Len(cps) % 17 = 0
        /\ \A p \in 1 .. Len(cps) :
             cps[p] = cps[((p - 1) \div 17) * 17 + 1] + ((p - 1) % 17)

\* the first frame at which some keyframe of the table lists the point
C20Start(cp) ==
  LET ts == {allGravityKeyframes[n].t : n \in Matching(allGravityKeyframes, MaxFrame + 10, cp)}
  IN CHOOSE t \in ts : \A u \in ts : t <= u

C15_ScanOncePerPointAndFrame ==
  memo.op = "get" =>
    /\ ~memo.rescanned
    /\ memo.hit => (~memo.scanned /\ memo.result = memo.fresh)
    /\ memo.reset => DOMAIN cache.gravityResults \subseteq {memo.globalCpIndex}
    /\ cache.frameIndex = memo.observed

(* =================== properties: selection helpers ====================== *)
(* ------------------- properties of the rider library ------------------- *)
\* the last call was a repeatRider(base, count, groups, modifiers) that returned
C22Returned == made.op = "repeatRider" /\ ~made.thrown

\* count riders; positions as the modifier gives them or a copy of the base's;
\* the base rider, its position, velocity and Set as they were before the call
C22CountPositionsBase ==
  LET base == made.before[made.base]
      basePos == made.before[base.startPosition]
  IN /\ Len(made.out) = made.count
     /\ \A i \in 0 .. (made.count - 1) :
          LET rider == heap[made.out[i + 1]]
          IN IF made.modifiers.startPosition = "shift"
               THEN heap[rider.startPosition] = Vec(basePos.x + i * 5, basePos.y)
               ELSE /\ heap[rider.startPosition] = basePos
                    /\ rider.startPosition # base.startPosition
     /\ \A ref \in 1 .. Len(made.before) : heap[ref] = made.before[ref]

\* C22 (as stated): repeatRider returns count riders, the i-th positioned by the
\* startPosition modifier or at a copy of the base's position, every rider's
\* group set exactly the given groups, and the base rider unmodified.
C22_RepeatRider ==
  C22Returned =>
    /\ C22CountPositionsBase
    /\ \A i \in 1 .. Len(made.out) :
         heap[heap[made.out[i]].groups].elems = made.groups

\* C22 (amended): as above, the group set being the given groups when no groups
\* modifier is given and the groups modifier's result otherwise.
C22_RepeatRiderGroupsModifier ==
  C22Returned =>
    /\ C22CountPositionsBase
    /\ \A i \in 1 .. Len(made.out) :
         heap[heap[made.out[i]].groups].elems =
           IF made.modifiers.groups = "none" THEN made.groups
           ELSE made.groups \cup {"extra"}

\* three riders of group g from a base at x = 2, shifted by 5 each
C22_Witness ==
  /\ C22Returned
  /\ made.count = 3 /\ made.groups = {"g"}
  /\ made.modifiers = [startPosition |-> "shift", groups |-> "none"]
  /\ made.before[made.before[made.base].startPosition].x = 2
  /\ \A i \in 0 .. 2 : heap[heap[made.out[i + 1]].startPosition].x = 2 + i * 5
  /\ \A i \in 1 .. 3 : heap[heap[made.out[i]].groups].elems = {"g"}

\* the objects a rider consists of: itself, its Set, position and velocity
C23Parts(h, rider) ==
  {rider, h[rider].groups, h[rider].startPosition, h[rider].startVelocity}

\* C23: the chainable repeatRider(groups, count, baseRider) creates count riders,
\* each tagged with the given groups, with or without a base rider; the riders
\* share no object with each other or with the template, and a chainable
\* modifier leaves the template as it was.
C23_ChainRepeatRider ==
  made.op \in {"RiderRepeater", "chain"} /\ made.groups # Missing =>
    /\ Len(made.out) = made.count
    /\ made.op = "RiderRepeater" =>
         \A i \in 1 .. Len(made.out) :
           heap[heap[made.out[i]].groups].elems = made.groups
    /\ \A i, j \in 1 .. Len(made.out) :
         i # j => C23Parts(heap, made.out[i]) \cap C23Parts(heap, made.out[j]) = {}
    /\ \A i \in 1 .. Len(made.out) :
         C23Parts(heap, made.out[i]) \cap (1 .. BaseRef) = {}
    /\ \A ref \in 1 .. BaseRef : heap[ref] = made.before[ref]

\* C24: the active grid mod's recompute previews the committed riders followed
\* by exactly rider_count_x * rider_count_y new riders, the one of column ix and
\* row iy at (x + ix*x_offset, y + iy*y_offset) with the configured velocity.
C24_GridPreview ==
  LET cx == gridState.rider_count_x
      cy == gridState.rider_count_y
      n == Len(committedRiders)
  IN gridState.active =>
       /\ Len(preview) = n + cx * cy
       /\ SubSeq(preview, 1, n) = committedRiders
       /\ \A ix \in 0 .. (cx - 1) : \A iy \in 0 .. (cy - 1) :
            LET r == preview[n + iy * cx + ix + 1]
            IN /\ r.startPosition = [x |-> gridState.x + ix * gridState.x_offset,
                                      y |-> gridState.y + iy * gridState.y_offset]
               /\ r.startVelocity = [x |-> gridState.x_velocity,
                                      y |-> gridState.y_velocity]

\* counts (2, 1), origin (0, 0), offsets (10, 10): two new riders, at (0, 0)
\* and (10, 0), after the committed one
C24_Witness ==
  /\ gridState.active
  /\ gridState.rider_count_x = 2 /\ gridState.rider_count_y = 1
  /\ gridState.x = 0 /\ gridState.y = 0
  /\ gridState.x_offset = 10 /\ gridState.y_offset = 10
  /\ Len(committedRiders) = 1 /\ Len(preview) = 3
  /\ preview[2].startPosition = [x |-> 0, y |-> 0]
  /\ preview[3].startPosition = [x |-> 10, y |-> 0]

\* C25: a script loaded when registerCustomSetting exists runs its main() at
\* once; scripts loaded before run nothing until the host fires the ready hook,
\* and that one firing runs every loaded script's main() exactly once, in load
\* order.
C25_ActivationChaining ==
  IF registerCustomSetting THEN mains = loaded ELSE mains = <<>>

\* three scripts loaded before the host was ready, a fourth after it
C25_Witness ==
  /\ registerCustomSetting
  /\ Len(loaded) = 4 /\ mains = loaded
  /\ Len(CallReady(onCustomToolsApiReady)) = 3

(* ---------------------- properties of invalid input --------------------- *)
\* the step leaves the host store, the scene and the keyframe table alone
C26NoOtherEffect ==
  UNCHANGED <<modVars, allRiders, allGravityKeyframes, hooked, frameIndex>>

\* the step is a makeRider or repeatRider call of one of the libraries without
\* a group: it throws and no rider object exists that did not before
C26RiderCall(libraries) ==
  /\ <<heap, made>>' # <<heap, made>>
  /\ lib \in libraries
  /\ made'.op \in {"makeRider", "repeatRider", "RiderRepeater"}
  /\ made'.groups = Missing
  => /\ made'.thrown
     /\ made'.out = <<>>
     /\ heap' = Live(heap)
     /\ C26NoOtherEffect

\* the step is an only or exclude call whose points are not an array
C26SelectionCall ==
  /\ sel' # sel
  /\ sel'.helper \in {"only", "exclude"}
  /\ ~sel'.points.isArray
  => /\ sel'.thrown
     /\ sel'.out = <<>>
     /\ C26NoOtherEffect /\ UNCHANGED heap

\* the step is an applyGravity call with contactPoints or baseTimestamp not an
\* array or with a keyframe function whose output is not a list of triples
C26GravityCall ==
  /\ gev' # gev
  /\ gev'.op = "applyGravity"
  /\ \/ ~gev'.contactPoints.isArray
     \/ ~gev'.baseTimestamp.isArray
     \/ gev'.keyframeFn = "malformed"
  => /\ gev'.thrown
     /\ gev'.out = <<>>
     /\ C26NoOtherEffect /\ UNCHANGED heap

\* C26 (as stated): makeRider and repeatRider without a group, only and exclude
\* with points that are not an array, and applyGravity with invalid arguments
\* or keyframe output throw, and the call has no other effect.
C26_InvalidInputThrows ==
  [][C26RiderCall(Libs) /\ C26SelectionCall /\ C26GravityCall]_vars

\* C26 (amended): as above, with makeRider and repeatRider those of the
\* RiderManager API (the Multirider API 1.1 accepts a missing group).
C26_InvalidInputThrowsByLibrary ==
  [][C26RiderCall({"RiderManager"}) /\ C26SelectionCall /\ C26GravityCall]_vars

\* a repeatRider without a group, an only without an array and an applyGravity
\* with malformed keyframes have all thrown
C26_Witness ==
  /\ made.op = "repeatRider" /\ made.groups = Missing /\ made.thrown
  /\ sel.helper = "only" /\ ~sel.points.isArray /\ sel.thrown
  /\ gev.op = "applyGravity" /\ gev.keyframeFn = "malformed" /\ gev.thrown
  /\ gev.contactPoints.isArray /\ gev.baseTimestamp.isArray

\* the global indices 17*i + p of the riders at the given scene indices, rider
\* by rider, for the local points p of 0..16 that are in the list
C21Expected(indices, points) ==
  LET kept == SelectSeq(allPoints,
                        LAMBDA p : \E k \in 1 .. Len(points) : points[k] = p)
  IN toContactPoints(indices, kept)

\* scene indices (from 0) of the riders tagged with the group, ascending
C21GroupIndices(groupName) ==
  LET pos == SelectSeq([k \in 1 .. Len(allRiders) |-> k],
                       LAMBDA k : groupName \in GroupsOf(allRiders[k]))
  IN [k \in 1 .. Len(pos) |-> pos[k] - 1]

\* C21: getRiderAt(i).keepOnly(P) returns exactly the indices 17*i + p, p in P,
\* for a rider at index i of the scene, and getByGroup(g).keepOnly(P) returns
\* them for every rider of the group.
C21_KeepOnlyPerRider ==
  /\ sel.helper = "getRiderAt.keepOnly" /\ sel.index < Len(allRiders) =>
       sel.out = C21Expected(<<sel.index>>, sel.points)
  /\ sel.helper = "getByGroup.keepOnly" =>
       sel.out = C21Expected(C21GroupIndices(sel.group), sel.points)

\* the global index the last read was attributed to
C29Attributed == IF api = "part_001" THEN memo.globalCpIndex ELSE gev.globalCpIndex

\* a read made while the scene has no rider
C29NoRiderRead ==
  /\ Len(allRiders) = 0
  /\ \/ api = "part_001" /\ memo' # memo
     \/ api # "part_001" /\ gev' # gev /\ gev'.op = "getGravity"

\* C29: with the engine reading once per contact point, rider by rider, the
\* k-th read of a frame (k from 0) is attributed to rider floor(k/17) and local
\* point k mod 17, that is to global index k, which lies in [0, 17*numRiders),
\* whatever frames, rider changes between frames and setGravityKeyframes calls
\* came before; a read with no rider returns the default gravity and leaves
\* the read counter as it was.
C29_ReadAttribution ==
  [][/\ readPos' = readPos + 1 =>
          /\ C29Attributed' = GlobalCpIndex(readPos \div 17, readPos % 17)
          /\ C29Attributed' >= 0
          /\ C29Attributed' < 17 * Len(allRiders)
     /\ C29NoRiderRead =>
          /\ counter' = counter
          /\ (IF api = "part_001" THEN memo'.result ELSE gev'.result) = DEFAULT_GRAVITY]_vars

\* C31: a setGravityKeyframes call that throws while processing an item leaves
\* the installed table, the computed frames, the camera follower's frames and
\* the player index as they were, and has scheduled no callback (no dispatch
\* issued or scheduled).
C31_AllOrNothing ==
  [][(gev' # gev /\ gev'.op = "setGravityKeyframes" /\ gev'.thrown) =>
        UNCHANGED <<allGravityKeyframes, hooked, frameIndex, followerFrames,
                    playerIndex, pending>>]_vars

\* C30: when the waiting animation-frame callbacks have all run, the player
\* index is the one the player had before the first of the setGravityKeyframes
\* calls that requested them, however many calls were made before the frame.
C30_PlayerIndexRestored ==
  [][(pending # <<>> /\ pending' = <<>>) => playerIndex' = pending[1]]_vars

\* C28: a read answered from the per-frame result cache returns what a scan of
\* the installed keyframe table returns for that point and frame: no result
\* computed from a previously installed table is served.
C28_NoStaleGravity ==
  memo.op = "get" /\ memo.hit => memo.result = memo.fresh

\* C10: toContactPoints emits, rider by rider and point by point, the index
\* i*17+p; createContactPointsArray emits for every selected rider found at
\* scene index i the seventeen indices i*17+p, p = 0..16; distinct (i, p) give
\* distinct indices, and the getter's floor(g/17), g mod 17 recover (i, p).
C10_ContactPointResolution ==
  /\ sel.helper = "toContactPoints" =>
       /\ Len(sel.out) = Len(sel.riderIndices) * Len(sel.points)
       /\ \A a \in 1 .. Len(sel.riderIndices) : \A b \in 1 .. Len(sel.points) :
            sel.out[(a - 1) * Len(sel.points) + b] = sel.riderIndices[a] * 17 + sel.points[b]
  /\ sel.helper = "createContactPointsArray" =>
       LET present == SelectSeq(sel.riders, LAMBDA r : Includes(allRiders, r))
       IN /\ Len(sel.out) = 17 * Len(present)
          /\ \A a \in 1 .. Len(present) : \A p \in 0 .. 16 :
               \E i \in 0 .. (Len(allRiders) - 1) :
                 /\ allRiders[i + 1] = present[a]
                 /\ sel.out[(a - 1) * 17 + p + 1] = i * 17 + p
  /\ \A i1, i2 \in 0 .. MaxRiderIndex : \A p1, p2 \in 0 .. 16 :
       /\ GlobalIndex(i1, p1) = i1 * 17 + p1
       /\ GlobalCpIndex(i1, p1) = i1 * 17 + p1
       /\ GlobalIndex(i1, p1) = GlobalIndex(i2, p2) => (i1 = i2 /\ p1 = p2)
       /\ RiderIndexOf(GlobalIndex(i1, p1)) = i1
       /\ ContactPointOf(GlobalIndex(i1, p1)) = p1

\* both riders' points resolved, the second rider's last point among them
C10_Witness ==
  /\ sel.helper = "toContactPoints"
  /\ sel.riderIndices = <<0, 1>>
  /\ sel.points = allPoints
  /\ sel.out[34] = 33

====
